---------------------------- MODULE Spec2Model ----------------------------
(***************************************************************************)
(* A model of the TAO Toolkit launcher (nvidia_tao_cli).                   *)
(*                                                                         *)
(* One behaviour is one run of the launcher: the launcher config is        *)
(* parsed into a task map, an instance is built, a command line (or a      *)
(* direct launch_command call) is dispatched, and in docker mode the       *)
(* DockerHandler drives the container engine.  The engine, the file        *)
(* system and the forwarded command are the environment: their answers     *)
(* are chosen nondeterministically at the step that asks for them.         *)
(*                                                                         *)
(* Python dicts keep insertion order, and the code depends on it, so a     *)
(* dict is a sequence of [k, v] items with distinct keys.                  *)
(***************************************************************************)
EXTENDS Integers, Sequences, FiniteSets, TLC

\* Python's None.
None == "None"

(***************************************************************************)
(* Ordered dicts.                                                          *)
(***************************************************************************)
Range(s) == {s[i] : i \in DOMAIN s}

DictKeys(d) == {d[i].k : i \in DOMAIN d}

DictKeyList(d) == [i \in DOMAIN d |-> d[i].k]

DictValues(d) == [i \in DOMAIN d |-> d[i].v]

DictGet(d, key) == d[CHOOSE i \in DOMAIN d : d[i].k = key].v

\* d[key] = val: an existing key keeps its place, a new key goes last.
DictPut(d, key, val) ==
    IF key \in DictKeys(d)
    THEN [i \in DOMAIN d |-> IF d[i].k = key THEN [k |-> key, v |-> val] ELSE d[i]]
    ELSE Append(d, [k |-> key, v |-> val])

\* d.update(items), items in their order.
RECURSIVE DictUpdate(_, _)
DictUpdate(d, items) ==
    IF items = <<>> THEN d
    ELSE DictUpdate(DictPut(d, Head(items).k, Head(items).v), Tail(items))

RECURSIVE Flatten(_)
Flatten(ss) == IF ss = <<>> THEN <<>> ELSE Head(ss) \o Flatten(Tail(ss))

\* " ".join(words)
RECURSIVE Join(_)
Join(words) ==
    IF words = <<>> THEN ""
    ELSE IF Len(words) = 1 THEN Head(words)
    ELSE Head(words) \o " " \o Join(Tail(words))

(***************************************************************************)
(* Task (components/types/task.py).                                        *)
(***************************************************************************)
\* A Task that keeps the registry of the config whatever the environment.
Task_config_registry(name, docker_image, docker_tag, docker_registry, docker_digest, override) ==
    [name            |-> name,
     docker_image    |-> docker_image,
     docker_tag      |-> docker_tag,
     docker_registry |-> docker_registry,
     docker_digest   |-> docker_digest]

\* Task.__init__: OVERRIDE_REGISTRY, when set, replaces the registry.
Task(name, docker_image, docker_tag, docker_registry, docker_digest, override) ==
    [name            |-> name,
     docker_image    |-> docker_image,
     docker_tag      |-> docker_tag,
     docker_registry |-> IF override # None THEN override ELSE docker_registry,
     docker_digest   |-> docker_digest]

\* Task.get_config: the five fields, docker_digest also when it is None.
get_config(task) ==
    <<[k |-> "name", v |-> task.name],
      [k |-> "docker_image", v |-> task.docker_image],
      [k |-> "docker_registry", v |-> task.docker_registry],
      [k |-> "docker_tag", v |-> task.docker_tag],
      [k |-> "docker_digest", v |-> task.docker_digest]>>

\* Task.from_config: every key must be one of mandatory_args; the Task is
\* built from the four mandatory values and the digest if it is given.
from_config(config_data, override) ==
    LET mandatory_args == {"name", "docker_image", "docker_tag", "docker_registry"}
        optional_args == {"docker_digest"}
    IN  IF \E key \in DictKeys(config_data) : key \notin mandatory_args
        THEN [exc |-> "AssertionError", task |-> None]
        ELSE IF ~(mandatory_args \subseteq DictKeys(config_data))
        THEN [exc |-> "KeyError", task |-> None]
        ELSE [exc |-> "none",
              task |-> Task(DictGet(config_data, "name"), DictGet(config_data, "docker_image"),
                            DictGet(config_data, "docker_tag"),
                            DictGet(config_data, "docker_registry"),
                            IF \E arg \in optional_args : arg \in DictKeys(config_data)
                            THEN DictGet(config_data, "docker_digest") ELSE None,
                            override)]

(***************************************************************************)
(* The launcher config file.                                               *)
(*   has_format_version, format_version : the discriminator                *)
(*   dockers    : image items (format 1.0 and 2.0)                         *)
(*   task_group : group items, each holding its dockers (format 3.0)       *)
(* An image item has the image name as key; its value is a dict            *)
(* (is_dict) of tag items, or something else.  A 1.0 image value is one    *)
(* tag entry (docker_tag, docker_registry, docker_digest, tasks) whose     *)
(* tasks key may be missing (has_tasks).                                   *)
(***************************************************************************)
TagEntry(tag, registry, digest, tasks) ==
    [tag |-> tag, docker_registry |-> registry, docker_digest |-> digest, tasks |-> tasks]

\* A parser that gives every task of an image the image's first tag.
TaskItems_first_tag(image, tags, override) ==
    Flatten([i \in DOMAIN tags |->
        [j \in DOMAIN tags[i].tasks |->
            [k |-> tags[i].tasks[j],
             v |-> Task(tags[i].tasks[j], image, tags[1].tag,
                        tags[i].docker_registry, tags[i].docker_digest, override)]]])

\* {task: Task(...) for tag in image_data.keys() for task in image_data[tag]["tasks"]}
TaskItems(image, tags, override) ==
    Flatten([i \in DOMAIN tags |->
        [j \in DOMAIN tags[i].tasks |->
            [k |-> tags[i].tasks[j],
             v |-> Task(tags[i].tasks[j], image, tags[i].tag,
                        tags[i].docker_registry, tags[i].docker_digest, override)]]])

\* An image loop in which the tasks of an earlier image win over those of
\* a later one.
RECURSIVE ParseDockers_first_image(_, _, _, _, _)
ParseDockers_first_image(version, dockers, local_map, images, override) ==
    IF dockers = <<>>
    THEN [exc |-> "none", local_map |-> local_map, docker_images |-> images]
    ELSE LET e == Head(dockers) IN
         IF version = 1 /\ ~e.has_tasks
         THEN [exc |-> "NotImplementedError", local_map |-> local_map, docker_images |-> images]
         ELSE IF version # 1 /\ ~e.is_dict
         THEN [exc |-> "ValueError", local_map |-> local_map, docker_images |-> images]
         ELSE ParseDockers_first_image(version, Tail(dockers),
                  DictUpdate(DictUpdate(<<>>, TaskItems(e.image, e.tags, override)), local_map),
                  images \cup {e.image}, override)

\* The loop over the image items of one dockers dict: the local map and the
\* image names so far, or the exception of the first item that raises.
RECURSIVE ParseDockers(_, _, _, _, _)
ParseDockers(version, dockers, local_map, images, override) ==
    IF dockers = <<>>
    THEN [exc |-> "none", local_map |-> local_map, docker_images |-> images]
    ELSE LET e == Head(dockers) IN
         IF version = 1 /\ ~e.has_tasks
         THEN [exc |-> "NotImplementedError", local_map |-> local_map, docker_images |-> images]
         ELSE IF version # 1 /\ ~e.is_dict
         THEN [exc |-> "ValueError", local_map |-> local_map, docker_images |-> images]
         ELSE ParseDockers(version, Tail(dockers),
                           DictUpdate(local_map, TaskItems(e.image, e.tags, override)),
                           images \cup {e.image}, override)

\* A group loop that starts every group's map from the map of the group
\* before it.
RECURSIVE ParseGroups_shared(_, _, _, _)
ParseGroups_shared(groups, task_map, images, override) ==
    IF groups = <<>>
    THEN [exc |-> "none", task_map |-> task_map, docker_images |-> images]
    ELSE LET g == Head(groups)
             r == ParseDockers(3, g.dockers,
                               IF task_map = <<>> THEN <<>> ELSE task_map[Len(task_map)].v,
                               images, override)
         IN IF r.exc # "none"
            THEN [exc |-> r.exc, task_map |-> <<>>, docker_images |-> {}]
            ELSE ParseGroups_shared(Tail(groups), DictPut(task_map, g.name, r.local_map),
                                    r.docker_images, override)

\* The loop over the task groups of a 3.0 config.
RECURSIVE ParseGroups(_, _, _, _)
ParseGroups(groups, task_map, images, override) ==
    IF groups = <<>>
    THEN [exc |-> "none", task_map |-> task_map, docker_images |-> images]
    ELSE LET g == Head(groups)
             r == ParseDockers(3, g.dockers, <<>>, images, override)
         IN IF r.exc # "none"
            THEN [exc |-> r.exc, task_map |-> <<>>, docker_images |-> {}]
            ELSE ParseGroups(Tail(groups), DictPut(task_map, g.name, r.local_map),
                             r.docker_images, override)

\* A parser that reads a config of an unknown version as a 2.0 config.
parse_launcher_config_lenient(config_data, override) ==
    IF ~config_data.has_format_version
    THEN [exc |-> "KeyError", task_map |-> <<>>, docker_images |-> {}]
    ELSE IF config_data.format_version = 3
    THEN ParseGroups(config_data.task_group, <<>>, {}, override)
    ELSE LET r == ParseDockers(IF config_data.format_version = 1 THEN 1 ELSE 2,
                               config_data.dockers, <<>>, {}, override)
         IN IF r.exc # "none"
            THEN [exc |-> r.exc, task_map |-> <<>>, docker_images |-> {}]
            ELSE [exc |-> "none",
                  task_map |-> <<[k |-> "container_actions", v |-> r.local_map]>>,
                  docker_images |-> r.docker_images]

\* LocalInstance.parse_launcher_config: (task_map, docker_images), or the
\* exception raised.
parse_launcher_config(config_data, override) ==
    IF ~config_data.has_format_version
    THEN [exc |-> "KeyError", task_map |-> <<>>, docker_images |-> {}]
    ELSE IF config_data.format_version \in {1, 2}
    THEN LET r == ParseDockers(config_data.format_version, config_data.dockers,
                               <<>>, {}, override)
         IN IF r.exc # "none"
            THEN [exc |-> r.exc, task_map |-> <<>>, docker_images |-> {}]
            ELSE [exc |-> "none",
                  task_map |-> <<[k |-> "container_actions", v |-> r.local_map]>>,
                  docker_images |-> r.docker_images]
    ELSE IF config_data.format_version = 3
    THEN ParseGroups(config_data.task_group, <<>>, {}, override)
    ELSE [exc |-> "NotImplementedError", task_map |-> <<>>, docker_images |-> {}]

(***************************************************************************)
(* The launcher configs the model runs on.  A universe u gives the names   *)
(* a config may use; a config is built leaf by leaf (a leaf is one tag     *)
(* entry, or one malformed image value), at most MaxLeaves of them, in     *)
(* every nesting and order the JSON schema allows.                         *)
(***************************************************************************)
MaxLeaves == 2

TagEntries(u) ==
    {TagEntry(t, r, d, l) : t \in u.tags, r \in u.registries,
                            d \in u.digests, l \in u.tasklists}

\* The image values of schema version v: well-formed ones, and (when the
\* universe asks for them) the malformed ones the parser tests for: a 1.0
\* value without the tasks key, a 2.0/3.0 value that is not a dict.
ImageValues(v, u) ==
    {[is_dict |-> TRUE, has_tasks |-> TRUE, tags |-> <<te>>] : te \in TagEntries(u)}
    \cup (IF ~u.malformed THEN {}
          ELSE IF v = 1
          THEN {[is_dict |-> TRUE, has_tasks |-> FALSE,
                 tags |-> <<TagEntry(t, r, None, <<>>)>>] : t \in u.tags, r \in u.registries}
          ELSE {[is_dict |-> FALSE, has_tasks |-> FALSE, tags |-> <<>>]})

ImageItem(image, val) ==
    [image |-> image, is_dict |-> val.is_dict, has_tasks |-> val.has_tasks, tags |-> val.tags]

ReplaceLast(s, x) == [s EXCEPT ![Len(s)] = x]

\* One more tag entry in the last image (2.0 and 3.0 only).
WithTag(v, groups, u) ==
    IF v = 1 \/ groups = <<>> THEN {}
    ELSE LET g == groups[Len(groups)]
             e == g.dockers[Len(g.dockers)]
         IN IF ~e.is_dict THEN {}
            ELSE {ReplaceLast(groups,
                      [g EXCEPT !.dockers = ReplaceLast(g.dockers,
                          [e EXCEPT !.tags = Append(e.tags, te)])]) :
                  te \in {x \in TagEntries(u) : \A i \in DOMAIN e.tags : e.tags[i].tag # x.tag}}

\* One more image in the last group.
WithImage(v, groups, u) ==
    IF groups = <<>> THEN {}
    ELSE LET g == groups[Len(groups)] IN
         {ReplaceLast(groups, [g EXCEPT !.dockers = Append(g.dockers, ImageItem(i, val))]) :
              i \in {x \in u.images : \A k \in DOMAIN g.dockers : g.dockers[k].image # x},
              val \in ImageValues(v, u)}

\* One more group (3.0), or the one dockers dict of a 1.0/2.0 config.
WithGroup(v, groups, u) ==
    IF v # 3 /\ groups # <<>> THEN {}
    ELSE {Append(groups, [name |-> n, dockers |-> <<ImageItem(i, val)>>]) :
              n \in {x \in u.groups : \A k \in DOMAIN groups : groups[k].name # x},
              i \in u.images, val \in ImageValues(v, u)}

RECURSIVE GroupsUpTo(_, _, _)
GroupsUpTo(n, v, u) ==
    IF n = 0 THEN {<<>>}
    ELSE LET P == GroupsUpTo(n - 1, v, u) IN
         P \cup UNION {WithTag(v, g, u) \cup WithImage(v, g, u) \cup WithGroup(v, g, u) : g \in P}

ConfigsOfVersion(v, u) ==
    IF v = 3
    THEN {[has_format_version |-> TRUE, format_version |-> 3,
           dockers |-> <<>>, task_group |-> g] : g \in GroupsUpTo(MaxLeaves, 3, u)}
    ELSE {[has_format_version |-> TRUE, format_version |-> v,
           dockers |-> IF g = <<>> THEN <<>> ELSE g[1].dockers, task_group |-> <<>>] :
               g \in GroupsUpTo(MaxLeaves, v, u)}

\* Valid and (if u.malformed) malformed configs: besides malformed image
\* values, a config without format_version and one of an unknown version.
Configs(u) ==
    ConfigsOfVersion(1, u) \cup ConfigsOfVersion(2, u) \cup ConfigsOfVersion(3, u)
    \cup (IF ~u.malformed THEN {}
          ELSE {[has_format_version |-> h, format_version |-> 4, dockers |-> c.dockers,
                 task_group |-> <<>>] : h \in BOOLEAN, c \in ConfigsOfVersion(2, u)})

\* A wheel parser that keeps no image names.
WHL_parse_launcher_config_no_images(config_data, override) ==
    [parse_launcher_config(config_data, override) EXCEPT !.docker_images = {}]

(***************************************************************************)
(* WHLInstance.parse_launcher_config: the wheel variant has its own copy   *)
(* of the parser.                                                          *)
(***************************************************************************)
WHL_parse_launcher_config(config_data, override) ==
    IF ~config_data.has_format_version
    THEN [exc |-> "KeyError", task_map |-> <<>>, docker_images |-> {}]
    ELSE IF config_data.format_version = 1 \/ config_data.format_version = 2
    THEN LET r == ParseDockers(config_data.format_version, config_data.dockers,
                               <<>>, {}, override)
         IN IF r.exc # "none"
            THEN [exc |-> r.exc, task_map |-> <<>>, docker_images |-> {}]
            ELSE [exc |-> "none",
                  task_map |-> <<[k |-> "container_actions", v |-> r.local_map]>>,
                  docker_images |-> r.docker_images]
    ELSE IF config_data.format_version = 3
    THEN ParseGroups(config_data.task_group, <<>>, {}, override)
    ELSE [exc |-> "NotImplementedError", task_map |-> <<>>, docker_images |-> {}]

(***************************************************************************)
(* Instances (base_instance.py, builder.py).                               *)
(***************************************************************************)
INSTANCE_HANDLER_TASKS == <<"list", "stop", "info">>

\* The order sorted() gives the group names of the model.
NameOrder == <<"container_actions", "g1", "g2", "info", "list", "stop">>

Rank(name) == CHOOSE i \in DOMAIN NameOrder : NameOrder[i] = name

RECURSIVE InsertSorted(_, _)
InsertSorted(s, x) ==
    IF s = <<>> THEN <<x>>
    ELSE IF Rank(x) < Rank(Head(s)) THEN <<x>> \o s
    ELSE <<Head(s)>> \o InsertSorted(Tail(s), x)

RECURSIVE Sorted(_)
Sorted(s) == IF s = <<>> THEN <<>> ELSE InsertSorted(Sorted(Tail(s)), Head(s))

NoInstance == [kind |-> "none", task_map |-> <<>>, docker_images |-> {}, dl_tasks |-> <<>>]

\* TAOInstance.__init__ / LocalInstance.__init__ / WHLInstance.__init__
TAOInstance(kind, task_map, docker_images) ==
    [kind |-> kind, task_map |-> task_map, docker_images |-> docker_images,
     dl_tasks |-> Sorted(DictKeyList(task_map))]

\* os.environ.get(name, default)
EnvGet(environ, name, default) == IF environ[name] = None THEN default ELSE environ[name]

\* A get_launcher without the assertion: every value but "0" is wheel mode.
get_launcher_no_assert(config_data, environ) ==
    IF EnvGet(environ, "TAO_DOCKER_DISABLE", "0") # "0"
    THEN LET r == WHL_parse_launcher_config(config_data, environ["OVERRIDE_REGISTRY"]) IN
         IF r.exc # "none"
         THEN [exc |-> r.exc, instance |-> NoInstance, supported_tasks |-> <<>>]
         ELSE LET inst == TAOInstance("whl", r.task_map, {}) IN
              [exc |-> "none", instance |-> inst, supported_tasks |-> inst.dl_tasks]
    ELSE LET r == parse_launcher_config(config_data, environ["OVERRIDE_REGISTRY"]) IN
         IF r.exc # "none"
         THEN [exc |-> r.exc, instance |-> NoInstance, supported_tasks |-> <<>>]
         ELSE LET inst == TAOInstance("local", r.task_map, r.docker_images) IN
              [exc |-> "none", instance |-> inst,
               supported_tasks |-> INSTANCE_HANDLER_TASKS \o inst.dl_tasks]

\* builder.get_launcher with from_config: the instance and the supported
\* task groups, or the exception raised.
get_launcher(config_data, environ) ==
    LET mode == EnvGet(environ, "TAO_DOCKER_DISABLE", "0") IN
    IF mode \notin {"0", "1"}
    THEN [exc |-> "AssertionError", instance |-> NoInstance, supported_tasks |-> <<>>]
    ELSE IF mode = "1"
    THEN LET r == WHL_parse_launcher_config(config_data, environ["OVERRIDE_REGISTRY"]) IN
         IF r.exc # "none"
         THEN [exc |-> r.exc, instance |-> NoInstance, supported_tasks |-> <<>>]
         ELSE LET inst == TAOInstance("whl", r.task_map, {}) IN
              [exc |-> "none", instance |-> inst, supported_tasks |-> inst.dl_tasks]
    ELSE LET r == parse_launcher_config(config_data, environ["OVERRIDE_REGISTRY"]) IN
         IF r.exc # "none"
         THEN [exc |-> r.exc, instance |-> NoInstance, supported_tasks |-> <<>>]
         ELSE LET inst == TAOInstance("local", r.task_map, r.docker_images) IN
              [exc |-> "none", instance |-> inst,
               supported_tasks |-> INSTANCE_HANDLER_TASKS \o inst.dl_tasks]

(***************************************************************************)
(* The command line (entrypoint/tao_launcher.py).                          *)
(***************************************************************************)
\* What launch_command gets as args: a list of tokens, or the Namespace of
\* the argument parser (container_id is None unless is_list).
ContainerIds(is_list, ids) == [is_list |-> is_list, ids |-> ids]

Namespace(container_id, all, verbose) ==
    [container_id |-> container_id, all |-> all, verbose |-> verbose]

DefaultNamespace == Namespace(ContainerIds(FALSE, <<>>), FALSE, FALSE)

ListArgs(args) == [is_list |-> TRUE, list |-> args, ns |-> DefaultNamespace]

NamespaceArgs(ns) == [is_list |-> FALSE, list |-> <<>>, ns |-> ns]

OptionTokens == {"--help", "--all", "--verbose", "--container_id", "-e"}

\* The values of a nargs="+" option: the tokens up to the next option.
RECURSIVE TakeValues(_)
TakeValues(tokens) ==
    IF tokens = <<>> \/ Head(tokens) \in OptionTokens THEN <<>>
    ELSE <<Head(tokens)>> \o TakeValues(Tail(tokens))

\* parse_known_args inside the sub-parser of one task group, as
\* build_command_line_parser builds it: --container_id and --all for stop,
\* --verbose for info, --help everywhere, unknown options skipped, and a
\* positional token is a choice among the supported task groups (every
\* sub-parser inherits the top parser's sub-command argument).
RECURSIVE ParseGroupArgs(_, _, _, _)
ParseGroupArgs(group, tokens, ns, supported) ==
    IF tokens = <<>> THEN [exit |-> FALSE, code |-> 0, ns |-> ns]
    ELSE LET t == Head(tokens) IN
         IF t = "--help" THEN [exit |-> TRUE, code |-> 0, ns |-> ns]
         ELSE IF t = "--all" /\ group = "stop"
         THEN ParseGroupArgs(group, Tail(tokens), [ns EXCEPT !.all = TRUE], supported)
         ELSE IF t = "--verbose" /\ group = "info"
         THEN ParseGroupArgs(group, Tail(tokens), [ns EXCEPT !.verbose = TRUE], supported)
         ELSE IF t = "--container_id" /\ group = "stop"
         THEN LET vals == TakeValues(Tail(tokens)) IN
              IF vals = <<>> THEN [exit |-> TRUE, code |-> 2, ns |-> ns]
              ELSE ParseGroupArgs(group, SubSeq(tokens, Len(vals) + 2, Len(tokens)),
                                  [ns EXCEPT !.container_id = ContainerIds(TRUE, vals)],
                                  supported)
         ELSE IF t \in OptionTokens
         THEN ParseGroupArgs(group, Tail(tokens), ns, supported)
         ELSE IF t \in Range(supported)
         THEN ParseGroupArgs(t, Tail(tokens), ns, supported)
         ELSE [exit |-> TRUE, code |-> 2, ns |-> ns]

\* parser.parse_known_args(args) of the top parser.
parse_known_args(args, supported) ==
    IF args = <<>> THEN [exit |-> FALSE, code |-> 0, ns |-> DefaultNamespace]
    ELSE IF Head(args) = "--help" THEN [exit |-> TRUE, code |-> 0, ns |-> DefaultNamespace]
    ELSE IF Head(args) \notin Range(supported)
    THEN [exit |-> TRUE, code |-> 2, ns |-> DefaultNamespace]
    ELSE ParseGroupArgs(Head(args), Tail(args), DefaultNamespace, supported)

TaskMapHas(task_map, task_group, task) ==
    /\ task_group \in DictKeys(task_map)
    /\ task \in DictKeys(DictGet(task_map, task_group))

\* main: the launch_command call it makes, or the SystemExit of the parser.
main(argv, instance, supported) ==
    LET args0 == IF argv = <<>> THEN <<"--help">> ELSE argv
        task_group == args0[1]
        args == IF Len(args0) < 2 /\ task_group \notin Range(INSTANCE_HANDLER_TASKS)
                THEN args0 \o <<"--help">> ELSE args0
        task == IF Len(args0) >= 2 /\ args0[2] # "--help" THEN args0[2] ELSE None
    IN  IF TaskMapHas(instance.task_map, task_group, task)
        THEN [exit |-> FALSE, code |-> 0, task_group |-> task_group, task |-> task,
              args |-> ListArgs(SubSeq(args, 3, Len(args)))]
        ELSE LET p == parse_known_args(args, supported) IN
             [exit |-> p.exit, code |-> p.code, task_group |-> task_group, task |-> task,
              args |-> NamespaceArgs(p.ns)]

(***************************************************************************)
(* DockerHandler (components/docker_handler/docker_handler.py).            *)
(***************************************************************************)
VALID_DOCKER_ARGS == <<"user", "ports", "shm_size", "ulimits", "privileged", "network", "tty">>

DockerHandler(docker_registry, image_name, docker_tag, docker_digest) ==
    [docker_registry |-> docker_registry, image_name |-> image_name,
     docker_tag |-> docker_tag, docker_digest |-> docker_digest]

NoHandler == DockerHandler(None, None, None, None)

\* An image reference pinned to the digest when there is one.
docker_image_with_digest(h) ==
    IF h.docker_digest = None
    THEN h.docker_registry \o "/" \o h.image_name \o ":" \o h.docker_tag
    ELSE h.docker_registry \o "/" \o h.image_name \o "@" \o h.docker_digest

\* DockerHandler.docker_image
docker_image(h) == h.docker_registry \o "/" \o h.image_name \o ":" \o h.docker_tag

\* The repository that pull asks for.
pull_repository(h) == h.docker_registry \o "/" \o h.image_name

\* A presence test that is satisfied by any tagged local image.
check_image_exists_any_tag(h, image_list) ==
    \E i \in DOMAIN image_list : image_list[i].RepoTags # {}

\* DockerHandler._check_image_exists: the reference is among the RepoTags
\* of a local image.  An image without RepoTags is skipped.
check_image_exists(h, image_list) ==
    \E i \in DOMAIN image_list :
        /\ image_list[i].RepoTags # {}
        /\ docker_image(h) \in image_list[i].RepoTags

\* f"{docker_image}:{docker_tag}", the key of handler_map.
HandlerKey(task) == task.docker_image \o ":" \o task.docker_tag

\* All Tasks of the task map, in the order handler_map visits them.
AllTasks(task_map) == Flatten([i \in DOMAIN task_map |-> DictValues(task_map[i].v)])

RECURSIVE HandlersOf(_, _)
HandlersOf(tasks, acc) ==
    IF tasks = <<>> THEN acc
    ELSE LET t == Head(tasks) IN
         HandlersOf(Tail(tasks),
                    IF HandlerKey(t) \in DictKeys(acc) THEN acc
                    ELSE DictPut(acc, HandlerKey(t),
                                 DockerHandler(t.docker_registry, t.docker_image,
                                               t.docker_tag, t.docker_digest)))

\* LocalInstance.handler_map: built anew at every access; the first Task of
\* an image:tag gives the handler.
handler_map(task_map) ==
    IF task_map = <<>> THEN [exc |-> "AssertionError", map |-> <<>>]
    ELSE [exc |-> "none", map |-> HandlersOf(AllTasks(task_map), <<>>)]

(***************************************************************************)
(* The mounts file and the paths it names.                                 *)
(***************************************************************************)
\* os.path.realpath(os.path.expanduser(p)) on the model's file system: the
\* home directory is /home/user and /data is a link to /mnt/data.
RealPath(p) ==
    IF p = "~/data" THEN "/home/user/data"
    ELSE IF p = "/data" THEN "/mnt/data"
    ELSE p

\* os.path.exists
PathExists(p) == p \in {"/home/user/data", "/mnt/data", "/results"}

Mount(source, destination) ==
    [has_source |-> TRUE, has_destination |-> TRUE,
     source |-> source, destination |-> destination]

EnvVar(variable, value) ==
    [has_variable |-> TRUE, has_value |-> TRUE, variable |-> variable, value |-> value]

Item(key, val) == [k |-> key, v |-> val]

NoMountsFile == [exists |-> FALSE, data |-> <<>>]

\* A Mounts loop that does not test whether the source path exists.
RECURSIVE ReadMounts_unchecked(_, _)
ReadMounts_unchecked(mounts, acc) ==
    IF mounts = <<>> THEN [exc |-> "none", mount_points |-> acc]
    ELSE LET m == Head(mounts) IN
         IF ~(m.has_source /\ m.has_destination)
         THEN [exc |-> "AssertionError", mount_points |-> acc]
         ELSE ReadMounts_unchecked(Tail(mounts),
                  Append(acc, [m EXCEPT !.source = RealPath(m.source),
                                        !.destination = RealPath(m.destination)]))

\* The loop over value of the Mounts key.
RECURSIVE ReadMounts(_, _)
ReadMounts(mounts, acc) ==
    IF mounts = <<>> THEN [exc |-> "none", mount_points |-> acc]
    ELSE LET m == Head(mounts) IN
         IF ~(m.has_source /\ m.has_destination)
         THEN [exc |-> "AssertionError", mount_points |-> acc]
         ELSE LET r == [m EXCEPT !.source = RealPath(m.source),
                                 !.destination = RealPath(m.destination)]
              IN IF ~PathExists(r.source)
                 THEN [exc |-> "ValueError", mount_points |-> acc]
                 ELSE ReadMounts(Tail(mounts), Append(acc, r))

\* The loop over the value of the Envs key.
RECURSIVE ReadEnvs(_, _)
ReadEnvs(envs, acc) ==
    IF envs = <<>> THEN [exc |-> "none", env_vars |-> acc]
    ELSE IF ~(Head(envs).has_variable /\ Head(envs).has_value)
    THEN [exc |-> "AssertionError", env_vars |-> acc]
    ELSE ReadEnvs(Tail(envs), Append(acc, Head(envs)))

\* The loop over the top-level items of the mounts file.
RECURSIVE ReadMountsData(_, _)
ReadMountsData(items, acc) ==
    IF items = <<>> \/ acc.exc # "none" THEN acc
    ELSE LET it == Head(items) IN
         IF it.k = "Mounts"
         THEN LET r == ReadMounts(it.v, acc.mount_points) IN
              ReadMountsData(Tail(items), [acc EXCEPT !.exc = r.exc,
                                                      !.mount_points = r.mount_points])
         ELSE IF it.k = "Envs"
         THEN LET r == ReadEnvs(it.v, acc.env_vars) IN
              ReadMountsData(Tail(items), [acc EXCEPT !.exc = r.exc, !.env_vars = r.env_vars])
         ELSE IF it.k = "DockerOptions"
         THEN ReadMountsData(Tail(items), [acc EXCEPT !.docker_options = it.v])
         ELSE [acc EXCEPT !.exc = "KeyError"]

\* A reader for which the mounts file must exist.
get_mount_env_data_required(file) ==
    LET empty == [exc |-> "none", mount_points |-> <<>>, env_vars |-> <<>>,
                  docker_options |-> <<>>]
    IN  IF ~file.exists THEN [empty EXCEPT !.exc = "FileNotFoundError"]
        ELSE IF "Mounts" \notin DictKeys(file.data) THEN [empty EXCEPT !.exc = "AssertionError"]
        ELSE ReadMountsData(file.data, empty)

\* DockerHandler._get_mount_env_data
get_mount_env_data(file) ==
    LET empty == [exc |-> "none", mount_points |-> <<>>, env_vars |-> <<>>,
                  docker_options |-> <<>>]
    IN  IF ~file.exists THEN empty
        ELSE IF "Mounts" \notin DictKeys(file.data) THEN [empty EXCEPT !.exc = "AssertionError"]
        ELSE ReadMountsData(file.data, empty)

\* DockerHandler.formatted_mounts: source path -> {bind, mode}
RECURSIVE formatted_mounts(_)
formatted_mounts(mountpoints_list) ==
    IF mountpoints_list = <<>> THEN <<>>
    ELSE LET m == mountpoints_list[Len(mountpoints_list)] IN
         DictPut(formatted_mounts(SubSeq(mountpoints_list, 1, Len(mountpoints_list) - 1)),
                 RealPath(m.source), [bind |-> RealPath(m.destination), mode |-> "rw"])

\* DockerHandler.formatted_envs
formatted_envs(env_var_list) ==
    [i \in DOMAIN env_var_list |-> env_var_list[i].variable \o "=" \o env_var_list[i].value]

\* A DockerOptions value as truth value (JSON false, 0, "" and null are false).
Truthy(v) == v \notin {"False", "0", "", None}

\* A DockerOptions value that is a JSON object.
IsDictValue(v) == v = "{memlock: -1}"

\* DockerHandler.get_docker_option_args: the keyword arguments, or the
\* assertion that fails.
RECURSIVE get_docker_option_args(_)
get_docker_option_args(docker_options) ==
    IF docker_options = <<>> THEN [exc |-> "none", docker_args |-> <<>>]
    ELSE LET o == docker_options[Len(docker_options)]
             r == get_docker_option_args(SubSeq(docker_options, 1, Len(docker_options) - 1))
         IN IF r.exc # "none" THEN r
            ELSE IF o.k \notin Range(VALID_DOCKER_ARGS) THEN [r EXCEPT !.exc = "AssertionError"]
            ELSE IF o.k = "ulimits" /\ ~IsDictValue(o.v) THEN [r EXCEPT !.exc = "AssertionError"]
            ELSE [r EXCEPT !.docker_args =
                      DictPut(r.docker_args, o.k,
                              IF o.k = "ulimits" THEN "[Ulimit(" \o o.v \o ")]" ELSE o.v)]

\* docker_options.get("tty", True)
OptionsTty(docker_options) ==
    IF "tty" \in DictKeys(docker_options) THEN DictGet(docker_options, "tty") ELSE "True"

\* The dict d without the key.
DictPop(d, key) == SelectSeq(d, LAMBDA it : it.k # key)

\* A start_container that always asks for a tty.
start_container_args_always_tty(docker_options) ==
    LET r == get_docker_option_args(docker_options) IN
    [exc |-> r.exc, tty |-> "True", docker_args |-> DictPop(r.docker_args, "tty")]

\* start_container up to the engine call: tty and the extra keyword
\* arguments of containers.run.
start_container_args(docker_options) ==
    LET r == get_docker_option_args(docker_options) IN
    [exc |-> r.exc,
     tty |-> IF "tty" \in DictKeys(r.docker_args) THEN DictGet(r.docker_args, "tty") ELSE "True",
     docker_args |-> DictPop(r.docker_args, "tty")]

\* run_container: "bash -c 'docker exec <-i|-it> <container id> <task_command>'"
exec_command(tty, container_id, task_command) ==
    "bash -c '" \o Join(<<"docker exec", IF Truthy(tty) THEN "-it" ELSE "-i",
                          container_id, task_command>>) \o "'"

\* run_container_on_ci: the docker run command line.
ci_options(docker_options) ==
    Flatten([i \in DOMAIN docker_options |->
        (IF docker_options[i].k = "privileged" /\ Truthy(docker_options[i].v)
         THEN <<"--privileged">> ELSE <<>>)
        \o (IF docker_options[i].k = "shm_size"
            THEN <<"--shm-size " \o docker_options[i].v>> ELSE <<>>)])

ci_command(h, volumes, env_variables, docker_options, task_command) ==
    LET volume_args == Join([i \in DOMAIN volumes |->
            "-v " \o volumes[i].k \o ":" \o volumes[i].v.bind \o ":" \o volumes[i].v.mode])
        env_args == Join([i \in DOMAIN env_variables |-> "-e " \o env_variables[i]])
        interactive_option == IF Truthy(OptionsTty(docker_options)) THEN "-it" ELSE "-i"
        docker_command == <<"docker run", interactive_option, "--rm", "--gpus all",
                            volume_args, env_args>> \o ci_options(docker_options)
    IN  Join(<<Join(docker_command), docker_image(h), task_command>>)

(***************************************************************************)
(* launch_command: the forwarded command.                                  *)
(***************************************************************************)
\* A command that always starts with the task name.
local_command_with_task(task, args) ==
    IF args # <<>> THEN (task \o " ") \o Join(args) ELSE "/bin/bash"

\* LocalInstance.launch_command, lines 363-377.
local_command(task, args) ==
    IF args # <<>>
    THEN IF args[1] = "run" THEN Join(Tail(args)) ELSE (task \o " ") \o Join(args)
    ELSE "/bin/bash"

\* WHLInstance.launch_command, lines 187-200: with no arguments the
\* command is extended before it is assigned.
whl_command(task, args) ==
    IF args # <<>>
    THEN [exc |-> "none",
          command |-> IF args[1] = "run" THEN Join(Tail(args)) ELSE (task \o " ") \o Join(args)]
    ELSE [exc |-> "UnboundLocalError", command |-> ""]

(***************************************************************************)
(* docker_logged_in (components/instance_handler/utils.py).                *)
(***************************************************************************)
\* ~/.docker/config.json: missing, without auths, or with the registries
\* logged in to.
DockerClientConfigs ==
    {[exists |-> FALSE, has_auths |-> FALSE, auths |-> {}],
     [exists |-> TRUE, has_auths |-> FALSE, auths |-> {}]}
    \cup [exists : {TRUE}, has_auths : {TRUE}, auths : SUBSET {"nvcr.io", "stg.nvcr.io"}]

\* A login check that accepts any docker client config with an auths section.
docker_logged_in_any_registry(docker_config, required_registry, environ) ==
    IF environ["OVERRIDE_REGISTRY"] # None THEN "none"
    ELSE IF ~docker_config.exists THEN "AssertionError"
    ELSE IF ~docker_config.has_auths THEN "ValueError"
    ELSE "none"

docker_logged_in(docker_config, required_registry, environ) ==
    IF environ["OVERRIDE_REGISTRY"] # None THEN "none"
    ELSE IF ~docker_config.exists THEN "AssertionError"
    ELSE IF ~docker_config.has_auths THEN "ValueError"
    ELSE IF required_registry \notin docker_config.auths THEN "AssertionError"
    ELSE "none"

(***************************************************************************)
(* The inputs of a run.                                                    *)
(***************************************************************************)
\* The longest argument list forwarded to a task.
MaxArgs == 1

\* The most mounts of a mounts file.
MaxMounts == 1

Environs(modes) ==
    {[TAO_DOCKER_DISABLE |-> d, CI_PROJECT_DIR |-> c, OVERRIDE_REGISTRY |-> o] :
        d \in modes, c \in {None, "/builds/tao"}, o \in {None, "registry.local"}}

SeqsUpTo(S, n) == UNION {[1..k -> S] : k \in 0..n}

ArgTokens == {"run", "-e"}

ArgLists == SeqsUpTo(ArgTokens, MaxArgs)

\* The configs of the full runs: one group, two images.
RunUniverse ==
    [groups |-> {"g1"}, images |-> {"img1", "img2"}, tags |-> {"v1"},
     registries |-> {"nvcr.io"}, digests |-> {None},
     tasklists |-> {<<"train", "export">>}, malformed |-> TRUE]

\* The command lines given to main.
Argvs(instance) ==
    {<<>>, <<"--help">>, <<"bogus">>, <<"list">>, <<"info">>, <<"info", "--verbose">>,
     <<"stop">>, <<"stop", "--all">>, <<"stop", "--container_id", "c1">>,
     <<"stop", "--container_id", "c1", "c2", "--all">>}
    \cup {<<g>> : g \in DictKeys(instance.task_map)}
    \cup {<<g, t>> \o a : g \in DictKeys(instance.task_map), a \in ArgLists,
                          t \in {"train", "export", "evaluate"}}

\* The arguments of a direct launch_command call.
DirectArgs ==
    {ListArgs(a) : a \in ArgLists}
    \cup {NamespaceArgs(Namespace(ContainerIds(l, IF l THEN <<"c1">> ELSE <<>>), b, b)) :
            l \in BOOLEAN, b \in BOOLEAN}

\* The mounts files of the full runs.
MountLists ==
    SeqsUpTo({Mount("~/data", "/workspace"), Mount("/missing", "/workspace"),
              [Mount("~/data", "/workspace") EXCEPT !.has_source = FALSE],
              [Mount("~/data", "/workspace") EXCEPT !.has_destination = FALSE]}, MaxMounts)

EnvLists ==
    {<<>>, <<EnvVar("CUDA_VISIBLE_DEVICES", "0")>>,
     <<[EnvVar("CUDA_VISIBLE_DEVICES", "0") EXCEPT !.has_variable = FALSE]>>,
     <<[EnvVar("CUDA_VISIBLE_DEVICES", "0") EXCEPT !.has_value = FALSE]>>}

OptionDicts ==
    {<<>>, <<Item("tty", "False")>>, <<Item("privileged", "True")>>, <<Item("gpus", "all")>>,
     <<Item("user", "1000:1000")>>}

\* The top-level items of a mounts file: every subset of the keys Mounts,
\* Envs, DockerOptions in this order, with or without an unknown key
\* after them.
MountsFiles ==
    {NoMountsFile}
    \cup {[exists |-> TRUE,
           data |-> (IF m.has THEN <<Item("Mounts", m.v)>> ELSE <<>>)
                    \o (IF e.has THEN <<Item("Envs", e.v)>> ELSE <<>>)
                    \o (IF o.has THEN <<Item("DockerOptions", o.v)>> ELSE <<>>)
                    \o (IF u = "last" THEN <<Item("Other", "x")>> ELSE <<>>)] :
            u \in {"no", "last"},
            m \in {[has |-> FALSE, v |-> <<>>]} \cup [has : {TRUE}, v : MountLists],
            e \in {[has |-> FALSE, v |-> <<>>]} \cup [has : {TRUE}, v : EnvLists],
            o \in {[has |-> FALSE, v |-> <<>>]} \cup [has : {TRUE}, v : OptionDicts]}

\* A local image as the engine inspects it.
Image(RepoTags) == [RepoTags |-> RepoTags]

\* The local images of a run: none, or the image of the handler.
PresentOrAbsent(h) == {<<>>, <<Image({docker_image(h)})>>}

\* A container of the engine.  The image it runs is
\* <registry>/<image_name>:<tag><tag_suffix>; processes are the commands
\* of the rows of container.top(), each split into its words.
Container(id, registry, image_name, tag, tag_suffix, processes) ==
    [id |-> id, registry |-> registry, image_name |-> image_name, tag |-> tag,
     tag_suffix |-> tag_suffix, processes |-> processes]

\* The containers the engine may be running when list or stop asks.
EngineContainers ==
    {Container("c1", "nvcr.io", "img1", "v1", "",
               <<<<"python", "/usr/local/bin/train", "-e", "spec.yaml">>>>),
     Container("c2", "docker.io", "ubuntu", "22.04", "", <<<<"bash">>>>)}

(***************************************************************************)
(* The state of a run.                                                     *)
(***************************************************************************)
VARIABLES
    pc,              \* where the run is
    environ,         \* os.environ
    config,          \* the launcher config file
    instance,        \* the LocalInstance / WHLInstance built from it
    supported_tasks, \* get_launcher's second result
    call,            \* the launch_command call: who made it and its arguments
    handler,         \* the DockerHandler launch_command picked
    command,         \* the forwarded command
    run,             \* the locals of the call: the docker client config read, the
                     \* images and the running containers the engine listed,
                     \* volumes, env_variables, docker_options, tty
    container,       \* DockerHandler._container
    log,             \* what was asked of the engine and the host, in order
    exc,             \* the exception being raised ("none": none)
    code             \* the code of a SystemExit

vars == <<pc, environ, config, instance, supported_tasks, call, handler, command,
          run, container, log, exc, code>>

\* One request to the engine or the host: what was asked (op, arg), the
\* answer (flag: it succeeded / the file or image is there), and for
\* kill_containers the ids it was given.
Event(op, arg, flag) == [op |-> op, arg |-> arg, ids |-> ContainerIds(FALSE, <<>>), flag |-> flag]

NoCall == [via |-> "none", argv |-> <<>>, task_group |-> None, task |-> None,
           args |-> ListArgs(<<>>)]

\* The docker client config has not been read.
NotRead == [exists |-> FALSE, has_auths |-> FALSE, auths |-> {}, read |-> FALSE]

\* What docker_logged_in has read: nothing when OVERRIDE_REGISTRY is set.
ConfigRead(docker_config, env) ==
    IF env["OVERRIDE_REGISTRY"] # None THEN NotRead
    ELSE [exists |-> docker_config.exists, has_auths |-> docker_config.has_auths,
          auths |-> docker_config.auths, read |-> TRUE]

NoRun == [ci |-> FALSE, volumes |-> <<>>, env_variables |-> <<>>,
          docker_options |-> <<>>, tty |-> "True", docker_config |-> NotRead,
          image_list |-> <<>>, started_tty |-> None, running |-> <<>>, table |-> <<>>,
          task |-> None]

\* The exit status of the process: 0 on return, 1 on an uncaught exception,
\* the low byte of the code of a SystemExit.
ExitStatus == IF exc = "none" THEN 0 ELSE IF exc = "SystemExit" THEN code % 256 ELSE 1

InitWith(configs, environs) ==
    /\ pc = "init"
    /\ environ \in environs
    /\ config \in configs
    /\ instance = NoInstance
    /\ supported_tasks = <<>>
    /\ call = NoCall
    /\ handler = NoHandler
    /\ command = ""
    /\ run = NoRun
    /\ container = None
    /\ log = <<>>
    /\ exc = "none"
    /\ code = 0

Init == InitWith(Configs(RunUniverse), Environs({None, "1", "2"}))

\* An exception leaves the call (or ends the process).
Raise(e, c) == pc' = "done" /\ exc' = e /\ code' = c

Goto(p) == pc' = p /\ UNCHANGED <<exc, code>>

Inputs == <<environ, config>>
Built == <<instance, supported_tasks>>

\* get_launcher(launcher_config_file)
GetLauncher ==
    /\ pc = "init"
    /\ LET r == get_launcher(config, environ) IN
       /\ instance' = r.instance
       /\ supported_tasks' = r.supported_tasks
       /\ IF r.exc # "none" THEN Raise(r.exc, 0) ELSE Goto("ready")
    /\ UNCHANGED <<Inputs, call, handler, command, run, container, log>>

\* main(args): dispatch of one command line.
MainWith(argvs) ==
    /\ pc = "ready"
    /\ \E argv \in argvs :
         LET r == main(argv, instance, supported_tasks) IN
         /\ call' = [via |-> "main", argv |-> argv, task_group |-> r.task_group, task |-> r.task,
                     args |-> r.args]
         /\ IF r.exit THEN Raise("SystemExit", r.code) ELSE Goto("launch")
    /\ UNCHANGED <<Inputs, Built, handler, command, run, container, log>>

Main == MainWith(Argvs(instance))

\* A caller of the instance calls launch_command itself.
DirectCall ==
    /\ pc = "ready"
    /\ \E g \in DictKeys(instance.task_map) \cup {"list", "stop", "info", "bogus"},
          t \in {"train", "evaluate"}, a \in DirectArgs :
         call' = [via |-> "direct", argv |-> <<>>, task_group |-> g, task |-> t, args |-> a]
    /\ Goto("launch")
    /\ UNCHANGED <<Inputs, Built, handler, command, run, container, log>>

\* launch_command is over (returned or raised) and its caller, which holds
\* the instance, may call it again: the handlers of the call are gone
\* (handler_map builds new ones at every access).
Return ==
    /\ pc = "done" /\ call.via = "direct"
    /\ pc' = "ready" /\ exc' = "none" /\ code' = 0
    /\ call' = NoCall /\ handler' = NoHandler /\ command' = "" /\ run' = NoRun
    /\ container' = None /\ log' = <<>>
    /\ UNCHANGED <<Inputs, Built>>

\* LocalInstance.launch_command
LaunchLocal ==
    /\ pc = "launch" /\ instance.kind = "local"
    /\ IF call.task_group \in DictKeys(instance.task_map)
       THEN LET task_map == DictGet(instance.task_map, call.task_group) IN
            IF call.task \in DictKeys(task_map)
            THEN \* a task of the group: run it in its container
                 IF ~call.args.is_list
                 THEN Raise("AssertionError", 0)
                      /\ UNCHANGED <<handler, command, run, log>>
                 ELSE \E docker_config \in DockerClientConfigs :
                      LET task == DictGet(task_map, call.task)
                          login == docker_logged_in(docker_config, task.docker_registry, environ)
                      IN IF login # "none"
                         THEN /\ Raise(login, 0)
                              /\ run' = [run EXCEPT
                                             !.docker_config = ConfigRead(docker_config, environ)]
                              /\ UNCHANGED <<handler, command, log>>
                         ELSE /\ handler' = DictGet(handler_map(instance.task_map).map,
                                                    HandlerKey(task))
                              /\ command' = local_command(call.task, call.args.list)
                              /\ run' = [run EXCEPT
                                             !.ci = environ["CI_PROJECT_DIR"] # None,
                                             !.docker_config = ConfigRead(docker_config, environ)]
                              /\ Goto("check_image")
                              /\ UNCHANGED log
            ELSE \* a task the group does not have: nothing is done
                 Raise("none", 0) /\ UNCHANGED <<handler, command, run, log>>
       ELSE /\ UNCHANGED <<handler, command, run, log>>
            /\ IF call.task_group \notin Range(INSTANCE_HANDLER_TASKS)
               THEN Raise("AssertionError", 0)
               ELSE IF call.args.is_list THEN Raise("AssertionError", 0)
               ELSE Goto(call.task_group)
    /\ UNCHANGED <<Inputs, Built, call, container>>

\* WHLInstance.launch_command up to the subprocess call
LaunchWHL ==
    /\ pc = "launch" /\ instance.kind = "whl"
    /\ IF call.task_group \in DictKeys(instance.task_map)
       THEN IF call.task \in DictKeys(DictGet(instance.task_map, call.task_group))
            THEN IF ~call.args.is_list
                 THEN Raise("AssertionError", 0) /\ UNCHANGED command
                 ELSE LET c == whl_command(call.task, call.args.list) IN
                      IF c.exc # "none" THEN Raise(c.exc, 0) /\ UNCHANGED command
                      ELSE command' = c.command /\ Goto("host_exec")
            ELSE Raise("NotImplementedError", 0) /\ UNCHANGED command
       ELSE Raise("NotImplementedError", 0) /\ UNCHANGED command
    /\ UNCHANGED <<Inputs, Built, call, handler, run, container, log>>

\* WHLInstance.launch_command, lines 201-210: the command runs on the host.
\* A CalledProcessError is caught; it ends the process only if it carries
\* output.
HostExec ==
    /\ pc = "host_exec"
    /\ \E result \in {"ok", "failed", "failed_with_output"} :
         /\ log' = Append(log, Event("host_exec", command, result = "ok"))
         /\ IF result = "failed_with_output" THEN Raise("SystemExit", -1) ELSE Raise("none", 0)
    /\ UNCHANGED <<Inputs, Built, call, handler, command, run, container>>

\* An image check whose answer is ignored: the run never pulls.
CheckImageExists_no_pull ==
    /\ pc = "check_image"
    /\ \E present \in BOOLEAN :
         log' = Append(log, Event("check_image", docker_image(handler), present))
    /\ Goto("mounts")
    /\ UNCHANGED <<Inputs, Built, call, handler, command, run, container>>

\* DockerHandler._check_image_exists, first step of run_container and of
\* run_container_on_ci, on the images the engine lists.  The docker client
\* config is not looked at after the login check, so the model forgets it
\* here.
CheckImageExistsIn(image_lists) ==
    /\ pc = "check_image"
    /\ \E image_list \in image_lists :
         LET present == check_image_exists(handler, image_list) IN
         /\ log' = Append(log, Event("check_image", docker_image(handler), present))
         /\ run' = [run EXCEPT !.docker_config = NotRead, !.image_list = image_list]
         /\ IF present THEN Goto("mounts") ELSE Goto("pull")
    /\ UNCHANGED <<Inputs, Built, call, handler, command, container>>

CheckImageExists == CheckImageExistsIn(PresentOrAbsent(handler))

\* A pull whose failure is ignored.
Pull_continue ==
    /\ pc = "pull"
    /\ \E ok \in BOOLEAN :
         log' = Append(log, Event("pull", pull_repository(handler) \o ":" \o handler.docker_tag,
                                  ok))
    /\ Goto("mounts")
    /\ UNCHANGED <<Inputs, Built, call, handler, command, run, container>>

\* DockerHandler.pull
Pull ==
    /\ pc = "pull"
    /\ \E ok \in BOOLEAN :
         /\ log' = Append(log, Event("pull", pull_repository(handler) \o ":" \o handler.docker_tag,
                                     ok))
         /\ IF ok THEN Goto("mounts") ELSE Raise("SystemExit", 1)
    /\ UNCHANGED <<Inputs, Built, call, handler, command, run, container>>

\* _get_mount_env_data, formatted_mounts, formatted_envs and the tty test of
\* run_container (lines 300-307) and run_container_on_ci (lines 350-352).
\* The list of local images is not looked at after the image check and the
\* pull, so the model forgets it here.
GetMountEnvDataFrom(files) ==
    /\ pc = "mounts"
    /\ \E file \in files :
         LET r == get_mount_env_data(file) IN
         /\ log' = Append(log, Event("mounts", r.exc, file.exists))
         /\ IF r.exc # "none"
            THEN Raise(r.exc, 0) /\ UNCHANGED run
            ELSE /\ run' = [run EXCEPT !.image_list = <<>>,
                                       !.volumes = formatted_mounts(r.mount_points),
                                       !.env_variables = formatted_envs(r.env_vars),
                                       !.docker_options = r.docker_options,
                                       !.tty = OptionsTty(r.docker_options)]
                 /\ IF run.ci THEN Goto("docker_run") ELSE Goto("start_container")
    /\ UNCHANGED <<Inputs, Built, call, handler, command, container>>

GetMountEnvData == GetMountEnvDataFrom(MountsFiles)

\* DockerHandler.start_container.  The volumes, environment and options are
\* not read after it, so the model drops them here and keeps the tty the
\* container was started with.
StartContainer ==
    /\ pc = "start_container"
    /\ LET a == start_container_args(run.docker_options) IN
       IF a.exc # "none"
       THEN Raise(a.exc, 0) /\ UNCHANGED <<container, log>>
       ELSE \E ok \in BOOLEAN :
              /\ log' = Append(log, Event("start", docker_image(handler), ok))
              /\ IF ok THEN container' = "c0" /\ Goto("exec")
                 ELSE Raise("SystemExit", 1) /\ UNCHANGED container
    /\ run' = [NoRun EXCEPT !.tty = run.tty,
                            !.started_tty = start_container_args(run.docker_options).tty]
    /\ UNCHANGED <<Inputs, Built, call, handler, command>>

\* An exec that starts a new container when the command fails.
ExecCommand_retry ==
    /\ pc = "exec"
    /\ \E result \in {"ok", "failed"} :
         /\ log' = Append(log, Event("exec", exec_command(run.tty, container, command),
                                     result = "ok"))
         /\ IF result = "failed" THEN Goto("start_container") ELSE Goto("finally")
    /\ UNCHANGED <<Inputs, Built, call, handler, command, run, container>>

\* run_container, lines 310-334: docker exec of the command.  A
\* CalledProcessError without output is swallowed; one with output stops
\* the container and exits.
ExecCommand ==
    /\ pc = "exec"
    /\ \E result \in {"ok", "failed", "failed_with_output"} :
         /\ log' = Append(log, Event("exec", exec_command(run.tty, container, command),
                                     result = "ok"))
         /\ IF result = "failed_with_output" THEN Goto("except") ELSE Goto("finally")
    /\ UNCHANGED <<Inputs, Built, call, handler, command, run, container>>

\* DockerHandler.stop_container: container.stop() succeeds or the engine
\* answers with an error.
stop_container(next_exc, next_code) ==
    \E ok \in BOOLEAN :
         /\ log' = Append(log, Event("stop", container, ok))
         /\ IF ok THEN exc' = next_exc /\ code' = next_code
            ELSE exc' = "APIError" /\ code' = 0

\* run_container, lines 331-334: the except branch
StopAfterFailure ==
    /\ pc = "except"
    /\ IF container # None
       THEN stop_container("SystemExit", -1)
       ELSE exc' = "SystemExit" /\ code' = -1 /\ UNCHANGED log
    /\ pc' = "finally"
    /\ UNCHANGED <<Inputs, Built, call, handler, command, run, container>>

\* A run_container without the finally branch.
StopFinally_skip ==
    /\ pc = "finally"
    /\ pc' = "done"
    /\ UNCHANGED <<Inputs, Built, call, handler, command, run, container, log, exc, code>>

\* run_container, lines 335-338: the finally branch
StopFinally ==
    /\ pc = "finally"
    /\ IF container # None
       THEN stop_container(exc, code)
       ELSE UNCHANGED <<log, exc, code>>
    /\ pc' = "done"
    /\ UNCHANGED <<Inputs, Built, call, handler, command, run, container>>

\* run_container_on_ci, lines 354-402: docker run of the command
RunOnCI ==
    /\ pc = "docker_run"
    /\ \E result \in {"ok", "failed", "failed_with_output"} :
         LET ran == Append(log, Event("docker_run",
                        ci_command(handler, run.volumes, run.env_variables,
                                   run.docker_options, command), result = "ok"))
         IN IF result = "failed_with_output"
            THEN IF container # None
                 THEN \E ok \in BOOLEAN :
                        /\ log' = Append(ran, Event("stop", container, ok))
                        /\ IF ok THEN Raise("SystemExit", -1) ELSE Raise("APIError", 0)
                 ELSE log' = ran /\ Raise("SystemExit", -1)
            ELSE log' = ran /\ Raise("none", 0)
    /\ run' = [NoRun EXCEPT !.ci = TRUE, !.tty = run.tty]
    /\ UNCHANGED <<Inputs, Built, call, handler, command, container>>

\* The order in which the engine lists containers.
EngineOrder == <<"c1", "c2", "c3">>

\* The running containers in the engine's order.
RunningList(running) ==
    Flatten([i \in DOMAIN EngineOrder |->
        IF \E c \in running : c.id = EngineOrder[i]
        THEN <<CHOOSE c \in running : c.id = EngineOrder[i]>> ELSE <<>>])

\* `image in container.attrs["Config"]["Image"]`: the handler key
\* <image>:<tag> is a substring of <registry>/<image_name>:<tag><tag_suffix>,
\* which it is when it ends with the tag or with the tag and its suffix.
KeyInImage(key, c) ==
    \/ key = c.image_name \o ":" \o c.tag
    \/ key = c.image_name \o ":" \o c.tag \o c.tag_suffix

\* LocalInstance._get_running_containers: a container once for every
\* handler key its image contains.
get_running_containers(task_map, running) ==
    LET hm == handler_map(task_map) IN
    IF hm.exc # "none" \/ hm.map = <<>>
    THEN [exc |-> "AssertionError", containers |-> <<>>]
    ELSE [exc |-> "none",
          containers |-> Flatten([i \in DOMAIN RunningList(running) |->
              Flatten([j \in DOMAIN hm.map |->
                  IF KeyInImage(hm.map[j].k, RunningList(running)[i])
                  THEN <<RunningList(running)[i]>> ELSE <<>>])])]

\* The stops of kill_containers by id, up to the first id the engine does
\* not know.
RECURSIVE StopByIds(_, _, _)
StopByIds(ids, running, acc) ==
    IF ids = <<>> THEN [exc |-> "none", stops |-> acc]
    ELSE IF Head(ids) \notin {c.id : c \in running} THEN [exc |-> "NotFound", stops |-> acc]
    ELSE StopByIds(Tail(ids), running, Append(acc, Event("container_stop", Head(ids), TRUE)))

\* LocalInstance.kill_containers: the container.stop() calls it makes and
\* the exception that ends it.
kill_containers(task_map, running, container_ids, kill_all) ==
    IF kill_all
    THEN LET r == get_running_containers(task_map, running) IN
         [exc |-> r.exc,
          stops |-> [i \in DOMAIN r.containers |-> Event("container_stop", r.containers[i].id, TRUE)]]
    ELSE IF container_ids.is_list
    THEN LET hm == handler_map(task_map) IN
         IF hm.exc # "none" THEN [exc |-> hm.exc, stops |-> <<>>]
         ELSE IF hm.map = <<>> THEN [exc |-> "IndexError", stops |-> <<>>]
         ELSE StopByIds(container_ids.ids, running, <<>>)
    ELSE [exc |-> "none", stops |-> <<>>]

\* task_point.split("/")[-1]
Basename(word) ==
    IF word \in {"/usr/local/bin/train", "/opt/train"} THEN "train"
    ELSE IF word \in {"/usr/local/bin/export", "/opt/export"} THEN "export"
    ELSE word

\* The loop over the rows of container.top(): the command of the first
\* process whose entrypoint is a task of the group, "" if there is none.
RECURSIVE CommandOf(_, _)
CommandOf(processes, tasks_per_group) ==
    IF processes = <<>> THEN ""
    ELSE LET words == Head(processes) IN
         IF Len(words) >= 2 /\ Basename(words[2]) \in tasks_per_group
         THEN Basename(words[2]) \o " " \o Join(SubSeq(words, 3, Len(words)))
         ELSE CommandOf(Tail(processes), tasks_per_group)

\* list_running_jobs, lines 247-271: for every task group in turn, every
\* container's command is set to "" and then to the command of its task
\* of that group.
RECURSIVE command_per_container(_, _, _)
command_per_container(task_map, container_list, acc) ==
    IF task_map = <<>> THEN acc
    ELSE LET commands == [i \in DOMAIN container_list |->
                 [k |-> container_list[i].id,
                  v |-> CommandOf(container_list[i].processes, DictKeys(task_map[1].v))]]
         IN command_per_container(Tail(task_map), container_list, DictUpdate(acc, commands))

\* LocalInstance.pretty_print: one row per container.
pretty_print(container_dict) ==
    [i \in DOMAIN container_dict |->
        [container_id |-> container_dict[i].k,
         command |-> IF container_dict[i].v # "" THEN container_dict[i].v
                     ELSE "Not in support DNN tasks."]]

\* launch_command, line 392: list_running_jobs, with some of the engine's
\* containers running.
ListRunningJobsFrom(engine) ==
    /\ pc = "list"
    /\ \E running \in SUBSET engine :
         LET r == get_running_containers(instance.task_map, running) IN
         /\ log' = Append(log, Event("list_running_jobs", "", TRUE))
         /\ run' = [run EXCEPT
                       !.running = RunningList(running),
                       !.table = IF r.exc # "none" THEN <<>>
                                 ELSE pretty_print(command_per_container(
                                          instance.task_map, r.containers, <<>>))]
         /\ Raise(r.exc, 0)
    /\ UNCHANGED <<Inputs, Built, call, handler, command, container>>

ListRunningJobs == ListRunningJobsFrom(EngineContainers)

\* A stop that always kills every container.
KillContainers_all ==
    /\ pc = "stop"
    /\ \E running \in SUBSET EngineContainers :
         LET r == kill_containers(instance.task_map, running, call.args.ns.container_id, TRUE)
         IN /\ log' = Append(log, [Event("kill_containers", "", TRUE) EXCEPT
                                       !.ids = call.args.ns.container_id]) \o r.stops
            /\ Raise(r.exc, 0)
    /\ UNCHANGED <<Inputs, Built, call, handler, command, run, container>>

\* launch_command, line 394: kill_containers(args.container_id, args.all),
\* with some of the engine's containers running.
KillContainersFrom(engine) ==
    /\ pc = "stop"
    /\ \E running \in SUBSET engine :
         LET r == kill_containers(instance.task_map, running,
                                  call.args.ns.container_id, call.args.ns.all)
         IN /\ log' = Append(log, [Event("kill_containers", "", call.args.ns.all) EXCEPT
                                       !.ids = call.args.ns.container_id]) \o r.stops
            /\ run' = [run EXCEPT !.running = RunningList(running)]
            /\ Raise(r.exc, 0)
    /\ UNCHANGED <<Inputs, Built, call, handler, command, container>>

KillContainers == KillContainersFrom(EngineContainers)

\* An info that replaces the task map by what it reads from the file again.
PrintInformation_reload ==
    /\ pc = "info"
    /\ log' = Append(log, Event("print_information", "", call.args.ns.verbose))
    /\ \E config_exists \in BOOLEAN :
         IF config_exists
         THEN Raise("none", 0) /\ UNCHANGED instance
         ELSE Raise("SystemExit", -1) /\ instance' = [instance EXCEPT !.task_map = <<>>]
    /\ UNCHANGED <<Inputs, supported_tasks, call, handler, command, run, container>>

\* launch_command, line 396: print_information(verbose=args.verbose); it
\* reads the config file again and exits if the file is gone.
PrintInformation ==
    /\ pc = "info"
    /\ log' = Append(log, Event("print_information", "", call.args.ns.verbose))
    /\ \E config_exists \in BOOLEAN :
         IF config_exists THEN Raise("none", 0) ELSE Raise("SystemExit", -1)
    /\ UNCHANGED <<Inputs, Built, call, handler, command, run, container>>

Next ==
    \/ GetLauncher \/ Main \/ DirectCall \/ Return
    \/ LaunchLocal \/ LaunchWHL \/ HostExec
    \/ CheckImageExists \/ Pull \/ GetMountEnvData \/ StartContainer \/ ExecCommand
    \/ StopAfterFailure \/ StopFinally \/ RunOnCI
    \/ ListRunningJobs \/ KillContainers \/ PrintInformation

\* One run of the launcher on the configs of RunUniverse.
Spec == Init /\ [][Next]_vars

(***************************************************************************)
(* Config parsing and handler selection on a wider set of configs: the     *)
(* run stops once launch_command has picked its handler.                   *)
(***************************************************************************)
SelectUniverse ==
    [groups |-> {"g1", "g2"}, images |-> {"img1", "img2"}, tags |-> {"v1", "v2"},
     registries |-> {"nvcr.io", "stg.nvcr.io"}, digests |-> {None},
     tasklists |-> {<<"train">>, <<"train", "export">>}, malformed |-> TRUE]

InitSelect ==
    InitWith(Configs(SelectUniverse),
             {[TAO_DOCKER_DISABLE |-> None, CI_PROJECT_DIR |-> None, OVERRIDE_REGISTRY |-> o] :
                  o \in {None, "registry.local"}})

\* launch_command called for a task name with one of the argument lists.
CallTaskWith(arglists) ==
    /\ pc = "ready"
    /\ \E g \in DictKeys(instance.task_map), t \in {"train", "export", "evaluate"},
          a \in arglists :
         call' = [via |-> "direct", argv |-> <<>>, task_group |-> g, task |-> t,
                  args |-> ListArgs(a)]
    /\ Goto("launch")
    /\ UNCHANGED <<Inputs, Built, handler, command, run, container, log>>

\* launch_command called for a task name with no arguments.
CallTask == CallTaskWith({<<>>})

NextSelect == GetLauncher \/ CallTask \/ LaunchLocal

SpecSelect == InitSelect /\ [][NextSelect]_vars
(***************************************************************************)
(* Properties.                                                             *)
(***************************************************************************)
\* The task groups of a config with their dockers: the one implicit group
\* of a 1.0/2.0 config, the task_group items of a 3.0 config.
GroupsOf(cfg) ==
    IF cfg.format_version = 3 THEN cfg.task_group
    ELSE <<[name |-> "container_actions", dockers |-> cfg.dockers]>>

\* The <<image, tag>> pairs under which the config lists task t in group g.
ListedPairs(cfg, g, t) ==
    LET gs == GroupsOf(cfg) IN
    UNION {UNION {{<<gs[i].dockers[j].image, gs[i].dockers[j].tags[k].tag>> :
                      k \in {k \in DOMAIN gs[i].dockers[j].tags :
                                t \in Range(gs[i].dockers[j].tags[k].tasks)}} :
                  j \in DOMAIN gs[i].dockers} :
           i \in {i \in DOMAIN gs : gs[i].name = g}}

GroupNames(cfg) == {GroupsOf(cfg)[i].name : i \in DOMAIN GroupsOf(cfg)}

TaskNames == {"train", "export", "evaluate"}

\* The exception the config must be rejected with, "none" for a valid one.
ExpectedRejection(cfg) ==
    IF ~cfg.has_format_version THEN "KeyError"
    ELSE IF cfg.format_version \notin {1, 2, 3} THEN "NotImplementedError"
    ELSE IF cfg.format_version = 1
            /\ \E i \in DOMAIN cfg.dockers : ~cfg.dockers[i].has_tasks
    THEN "NotImplementedError"
    ELSE IF cfg.format_version \in {2, 3}
            /\ \E i \in DOMAIN GroupsOf(cfg) : \E j \in DOMAIN GroupsOf(cfg)[i].dockers :
                   ~GroupsOf(cfg)[i].dockers[j].is_dict
    THEN "ValueError"
    ELSE "none"

\* The steps of the log with the given names.
Steps(ops) == {i \in DOMAIN log : log[i].op \in ops}

\* C1: for a valid config of version 1.0, 2.0 or 3.0, every task the config
\* lists in a group is in the task map of that group, its Task carries an
\* image/tag pair under which the config lists it, and launch_command picks
\* the handler of exactly that image and tag.
C1_CorrectImageSelected ==
    (pc # "init" /\ instance.kind = "local") =>
        /\ \A g \in GroupNames(config), t \in TaskNames :
             ListedPairs(config, g, t) # {} =>
                 /\ TaskMapHas(instance.task_map, g, t)
                 /\ LET task == DictGet(DictGet(instance.task_map, g), t) IN
                    /\ task.name = t
                    /\ <<task.docker_image, task.docker_tag>> \in ListedPairs(config, g, t)
        /\ handler # NoHandler =>
             LET task == DictGet(DictGet(instance.task_map, call.task_group), call.task) IN
             /\ handler.image_name = task.docker_image
             /\ handler.docker_tag = task.docker_tag
             /\ <<handler.image_name, handler.docker_tag>>
                    \in ListedPairs(config, call.task_group, call.task)

\* A task listed under two image/tag pairs has been launched.
C1_Witness ==
    /\ pc = "check_image" /\ handler # NoHandler
    /\ config.format_version = 3
    /\ Cardinality(ListedPairs(config, call.task_group, call.task)) = 2

\* C2: in docker mode the steps of one invocation come in the order check
\* image, pull (only if the image is absent), parse mounts, start, exec,
\* stop, each only after the one before it has completed, and a task that
\* returns has gone through all of them.
C2_StepOrder ==
    /\ \A i \in DOMAIN log :
         /\ log[i].op = "check_image" => i = 1
         /\ log[i].op = "pull" => i = 2 /\ log[1].op = "check_image" /\ ~log[1].flag
         /\ log[i].op = "mounts" =>
               i > 1 /\ log[i - 1].op \in {"check_image", "pull"} /\ log[i - 1].flag
         /\ log[i].op = "start" =>
               i > 1 /\ log[i - 1].op = "mounts" /\ log[i - 1].arg = "none"
         /\ log[i].op = "exec" => i > 1 /\ log[i - 1].op = "start" /\ log[i - 1].flag
         /\ log[i].op = "stop" => i > 1 /\ log[i - 1].op \in {"exec", "stop"}
    /\ (pc = "done" /\ exc = "none" /\ handler # NoHandler /\ ~run.ci) =>
           [i \in DOMAIN log |-> log[i].op] \in
               {<<"check_image", "mounts", "start", "exec", "stop">>,
                <<"check_image", "pull", "mounts", "start", "exec", "stop">>}

\* A docker-mode run with a pull has gone through every step.
C2_Witness ==
    /\ pc = "done" /\ exc = "none"
    /\ [i \in DOMAIN log |-> log[i].op]
           = <<"check_image", "pull", "mounts", "start", "exec", "stop">>

\* C3: one invocation starts at most one container (containers.run on the
\* docker path, docker run on the CI path), and none in wheel mode.
C3_AtMostOneContainer ==
    /\ Cardinality(Steps({"start", "docker_run"})) <= 1
    /\ instance.kind = "whl" => Steps({"start", "docker_run"}) = {}

\* A container was started and the command in it failed.
C3_Witness ==
    /\ pc = "done"
    /\ \E i \in Steps({"start"}) : log[i].flag
    /\ \E j \in Steps({"exec"}) : ~log[j].flag

\* C4: once start_container has succeeded, run_container does not end
\* before stop_container was called on the container, whether the command
\* succeeded or failed.
C4_StartedContainerStopped ==
    pc = "done" =>
        \A i \in Steps({"start"}) :
            log[i].flag => \E j \in Steps({"stop"}) : j > i /\ log[j].arg = container

\* The command failed and the container was stopped.
C4_Witness ==
    /\ pc = "done"
    /\ \E i \in Steps({"start"}) : log[i].flag
    /\ \E j \in Steps({"exec"}) : ~log[j].flag
    /\ \E k \in Steps({"stop"}) : log[k].flag

\* C5: when the forwarded command fails (docker exec, docker run or the
\* host subprocess returns a non-zero status), the invocation ends with a
\* non-zero exit status.
C5_FailureIsFatal ==
    (pc = "done" /\ \E i \in Steps({"exec", "docker_run", "host_exec"}) : ~log[i].flag)
        => ExitStatus # 0

\* C6: a malformed config (no format_version, an unknown version, a 1.0
\* image entry without tasks, a 2.0/3.0 image entry that is not a dict) is
\* rejected with its exception: no instance is built and nothing is asked
\* of the engine.
C6_MalformedConfigRejected ==
    (pc # "init" /\ EnvGet(environ, "TAO_DOCKER_DISABLE", "0") \in {"0", "1"}
     /\ ExpectedRejection(config) # "none") =>
        /\ pc = "done" /\ exc = ExpectedRejection(config)
        /\ instance = NoInstance /\ supported_tasks = <<>>
        /\ log = <<>> /\ container = None

\* A 2.0 config whose second image entry is not a dict was rejected.
C6_Witness ==
    /\ pc = "done" /\ exc = "ValueError"
    /\ config.format_version = 2 /\ Len(config.dockers) = 2
    /\ config.dockers[1].is_dict /\ ~config.dockers[2].is_dict

\* The mounts file has one of the defects: a top-level key other than
\* Mounts, Envs and DockerOptions, no Mounts key, a mount without source or
\* destination or with a source path that does not exist, an env entry
\* without variable or value.
InvalidMountsFile(file) ==
    \/ \E i \in DOMAIN file.data : file.data[i].k \notin {"Mounts", "Envs", "DockerOptions"}
    \/ \A i \in DOMAIN file.data : file.data[i].k # "Mounts"
    \/ \E i \in DOMAIN file.data :
         /\ file.data[i].k = "Mounts"
         /\ \E j \in DOMAIN file.data[i].v :
              LET m == file.data[i].v[j] IN
              ~m.has_source \/ ~m.has_destination \/ ~PathExists(RealPath(m.source))
    \/ \E i \in DOMAIN file.data :
         /\ file.data[i].k = "Envs"
         /\ \E j \in DOMAIN file.data[i].v :
              ~file.data[i].v[j].has_variable \/ ~file.data[i].v[j].has_value

\* C7: _get_mount_env_data raises on every mounts file that exists and is
\* invalid, and an invocation whose mounts file was rejected is over, with
\* that exception and without a container started, on the docker path and
\* on the CI path.
C7_InvalidMountsRejected ==
    /\ pc = "mounts" =>
         \A file \in MountsFiles :
             (file.exists /\ InvalidMountsFile(file)) => get_mount_env_data(file).exc # "none"
    /\ \A i \in Steps({"mounts"}) :
         (log[i].flag /\ log[i].arg # "none") =>
             /\ i = Len(log) /\ pc = "done" /\ exc = log[i].arg
             /\ Steps({"start", "docker_run", "exec"}) = {} /\ container = None

\* On the CI path an existing mounts file was rejected.
C7_Witness ==
    /\ pc = "done" /\ run.ci /\ exc = "ValueError"
    /\ \E i \in Steps({"mounts"}) : log[i].flag /\ log[i].arg = "ValueError"

\* C8: a failed pull ends the process with status 1 before the mounts file
\* is parsed or a container started; a failed start ends it with status 1
\* before the command runs, and stop_container is not called.
C8_EngineFailureExits ==
    /\ \A i \in Steps({"pull"}) :
         ~log[i].flag =>
             /\ i = Len(log) /\ pc = "done" /\ exc = "SystemExit" /\ ExitStatus = 1
             /\ Steps({"mounts", "start", "docker_run", "exec", "stop"}) = {}
    /\ \A i \in Steps({"start"}) :
         ~log[i].flag =>
             /\ i = Len(log) /\ pc = "done" /\ exc = "SystemExit" /\ ExitStatus = 1
             /\ Steps({"exec", "stop"}) = {} /\ container = None

\* The start of the container failed after a pull that succeeded.
C8_Witness ==
    /\ pc = "done" /\ ExitStatus = 1
    /\ \E i \in Steps({"pull"}) : log[i].flag
    /\ \E j \in Steps({"start"}) : ~log[j].flag

\* C9: once the instance is built, no step changes it: the task map and
\* the fields of every Task stay as from_config left them.
C9_InstanceNeverChanges ==
    [][instance.kind # "none" => instance' = instance]_vars

\* A launch_command call made on the built instance has run a task.
C9_Witness ==
    /\ pc = "done" /\ call.via = "direct" /\ instance.kind = "local"
    /\ Steps({"exec"}) # {}

\* The group the invocation asks for.
RequestedGroup ==
    IF call.via = "main" THEN (IF call.argv = <<>> THEN "--help" ELSE call.argv[1])
    ELSE call.task_group

\* The values of --container_id on a stop command line and whether --all
\* is on it.
StopIds(argv) ==
    IF \E i \in DOMAIN argv : argv[i] = "--container_id"
    THEN LET i == CHOOSE i \in DOMAIN argv : argv[i] = "--container_id"
             n == CHOOSE n \in i..Len(argv) :
                      /\ \A k \in (i + 1)..n : argv[k] # "--all"
                      /\ (n = Len(argv) \/ argv[n + 1] = "--all")
         IN ContainerIds(TRUE, SubSeq(argv, i + 1, n))
    ELSE ContainerIds(FALSE, <<>>)

\* The built-in groups do what the command line says and start nothing.
BuiltinsDispatched ==
    /\ \A i \in Steps({"list_running_jobs", "kill_containers", "print_information"}) :
         /\ i = 1 /\ Steps({"start", "docker_run", "exec", "host_exec"}) = {}
         /\ container = None /\ handler = NoHandler
         /\ log[i].op = "list_running_jobs" => call.task_group = "list"
         /\ log[i].op = "kill_containers" =>
               /\ call.task_group = "stop"
               /\ call.via = "main" =>
                     /\ log[i].ids = StopIds(call.argv)
                     /\ log[i].flag = ("--all" \in Range(call.argv))
         /\ log[i].op = "print_information" =>
               /\ call.task_group = "info"
               /\ call.via = "main" => log[i].flag = ("--verbose" \in Range(call.argv))
    /\ (pc = "done" /\ instance.kind = "local" /\ ~call.args.is_list
        /\ call.task_group \in Range(INSTANCE_HANDLER_TASKS) /\ call.via # "none"
        /\ ~(call.via = "main" /\ exc = "SystemExit" /\ log = <<>>)) =>
           /\ log # <<>>
           /\ log[1].op = (IF call.task_group = "list" THEN "list_running_jobs"
                           ELSE IF call.task_group = "stop" THEN "kill_containers"
                           ELSE "print_information")

\* A group that is neither in the task map nor built in was asked for in
\* docker mode, and the invocation is over.
UnknownGroupRequested ==
    /\ pc = "done" /\ instance.kind = "local" /\ call.via # "none"
    /\ RequestedGroup \notin DictKeys(instance.task_map) \cup Range(INSTANCE_HANDLER_TASKS)
                              \cup {"--help"}

\* C10 as stated: the built-ins are dispatched as the command line says
\* without a container, and an unknown group is rejected with an assertion
\* failure.
C10_UnknownGroupAsserts ==
    /\ BuiltinsDispatched
    /\ UnknownGroupRequested => exc = "AssertionError" /\ log = <<>>

\* C10: the built-ins are dispatched as the command line says without a
\* container; an unknown group is rejected with nothing started: by the
\* argument parser with exit status 2 when it comes from the command line,
\* by launch_command's assertion when launch_command is called directly.
C10_BuiltinDispatch ==
    /\ BuiltinsDispatched
    /\ UnknownGroupRequested =>
         /\ log = <<>> /\ container = None
         /\ call.via = "main" => exc = "SystemExit" /\ ExitStatus = 2
         /\ call.via = "direct" => exc = "AssertionError"

\* An unknown group on the command line was turned down by the parser.
C10_UnknownGroupOnCommandLine ==
    UnknownGroupRequested /\ call.via = "main" /\ exc = "SystemExit"

(***************************************************************************)
(* Mode selection: every value of TAO_DOCKER_DISABLE, the wheel path to    *)
(* its end and the docker path up to the choice of the handler.            *)
(***************************************************************************)
InitMode == InitWith(Configs(RunUniverse), Environs({None, "0", "1", "2"}))

NextMode == GetLauncher \/ Main \/ LaunchLocal \/ LaunchWHL \/ HostExec

SpecMode == InitMode /\ [][NextMode]_vars

\* C11: TAO_DOCKER_DISABLE alone selects the mode: unset or "0" gives a
\* LocalInstance supporting list, stop, info and then the config's groups;
\* "1" gives a WHLInstance supporting only the config's groups, which runs
\* the command on the host and asks nothing of the engine; any other value
\* fails get_launcher's assertion and no instance is returned.
C11_ModeSelection ==
    LET mode == EnvGet(environ, "TAO_DOCKER_DISABLE", "0")
        n == Len(INSTANCE_HANDLER_TASKS)
    IN
    pc # "init" =>
        /\ (mode = "0" /\ ExpectedRejection(config) = "none") =>
              /\ instance.kind = "local"
              /\ SubSeq(supported_tasks, 1, n) = INSTANCE_HANDLER_TASKS
              /\ Len(supported_tasks) = n + Cardinality(GroupNames(config))
              /\ {supported_tasks[i] : i \in (n + 1)..Len(supported_tasks)} = GroupNames(config)
        /\ (mode = "1" /\ ExpectedRejection(config) = "none") =>
              /\ instance.kind = "whl"
              /\ Len(supported_tasks) = Cardinality(GroupNames(config))
              /\ Range(supported_tasks) = GroupNames(config)
              /\ \A i \in DOMAIN log : log[i].op = "host_exec"
              /\ handler = NoHandler /\ container = None
              /\ pc \in {"ready", "launch", "host_exec", "done"}
              /\ (pc = "done" /\ command # "") => Steps({"host_exec"}) # {}
        /\ mode \notin {"0", "1"} =>
              pc = "done" /\ exc = "AssertionError" /\ instance = NoInstance

\* With TAO_DOCKER_DISABLE=0 and CI_PROJECT_DIR set a task was launched on
\* a LocalInstance.
C11_Witness ==
    /\ environ["TAO_DOCKER_DISABLE"] = "0" /\ environ["CI_PROJECT_DIR"] # None
    /\ instance.kind = "local" /\ pc = "check_image" /\ handler # NoHandler

\* The tasks the config lists in group g.
ListedTasks(cfg, g) == {t \in TaskNames : ListedPairs(cfg, g, t) # {}}

\* C12: the task map of a 1.0 or 2.0 config has the one group
\* container_actions with every task of every image; the task map of a 3.0
\* config has one group per key of task_group, each holding the tasks
\* listed in that group and no task of another group.
C12_GroupingFollowsVersion ==
    (pc # "init" /\ instance.kind = "local") =>
        /\ config.format_version \in {1, 2} =>
               DictKeyList(instance.task_map) = <<"container_actions">>
        /\ config.format_version = 3 =>
               DictKeyList(instance.task_map)
                   = [i \in DOMAIN config.task_group |-> config.task_group[i].name]
        /\ \A g \in DictKeys(instance.task_map) :
               DictKeys(DictGet(instance.task_map, g)) = ListedTasks(config, g)

\* A 3.0 config with two groups listing different tasks was parsed.
C12_Witness ==
    /\ pc = "ready" /\ instance.kind = "local" /\ config.format_version = 3
    /\ Len(instance.task_map) = 2
    /\ ListedTasks(config, "g1") = {"train", "export"}
    /\ ListedTasks(config, "g2") = {"train"}

\* The option takes effect on the container.run call of start_container:
\* tty as the tty argument, every other option as a keyword argument.
EffectiveOnStart(docker_options, key) ==
    LET a == start_container_args(docker_options) IN
    /\ a.exc = "none"
    /\ IF key = "tty" THEN a.tty = DictGet(docker_options, key)
       ELSE /\ key \in DictKeys(a.docker_args)
            /\ DictGet(a.docker_args, key)
                   = (IF key = "ulimits" THEN "[Ulimit(" \o DictGet(docker_options, key) \o ")]"
                      ELSE DictGet(docker_options, key))

\* The option takes effect on the docker run command of the CI path: the
\* command differs from the one built without the option.
EffectiveOnCI(docker_options, key) ==
    ci_command(handler, run.volumes, run.env_variables, docker_options, command)
        # ci_command(handler, run.volumes, run.env_variables, DictPop(docker_options, key),
                     command)

\* An option whose value is the engine's default: leaving it out changes
\* nothing.
IsDefaultOption(it) ==
    \/ it.k = "tty" /\ Truthy(it.v)
    \/ it.k = "privileged" /\ ~Truthy(it.v)

\* C13: on the run_container path and on the run_container_on_ci path
\* alike, every option of DockerOptions among user, ports, shm_size,
\* ulimits, privileged, network and tty takes effect on the started
\* container, and a key outside that list is rejected before a container
\* is started.
C13_OptionsPassedThrough ==
    /\ pc = "start_container" =>
         IF \A i \in DOMAIN run.docker_options :
                run.docker_options[i].k \in Range(VALID_DOCKER_ARGS)
         THEN \A i \in DOMAIN run.docker_options :
                  EffectiveOnStart(run.docker_options, run.docker_options[i].k)
         ELSE start_container_args(run.docker_options).exc # "none"
    /\ pc = "docker_run" =>
         /\ \A i \in DOMAIN run.docker_options :
                run.docker_options[i].k \in Range(VALID_DOCKER_ARGS)
         /\ \A i \in DOMAIN run.docker_options :
                IsDefaultOption(run.docker_options[i])
                \/ EffectiveOnCI(run.docker_options, run.docker_options[i].k)

\* The run_container half of C13: what start_container does with the
\* options.
OptionsPassedOnStart ==
    pc = "start_container" =>
         IF \A i \in DOMAIN run.docker_options :
                run.docker_options[i].k \in Range(VALID_DOCKER_ARGS)
         THEN \A i \in DOMAIN run.docker_options :
                  EffectiveOnStart(run.docker_options, run.docker_options[i].k)
         ELSE start_container_args(run.docker_options).exc # "none"

(***************************************************************************)
(* Mounts and environment bindings: one config, mounts files that are      *)
(* valid and hold up to MaxBindings mounts and environment entries.        *)
(***************************************************************************)
MaxBindings == 2

OneUniverse ==
    [groups |-> {"g1"}, images |-> {"img1"}, tags |-> {"v1"}, registries |-> {"nvcr.io"},
     digests |-> {None}, tasklists |-> {<<"train", "export">>}, malformed |-> FALSE]

ValidMounts ==
    {Mount("~/data", "/workspace"), Mount("/home/user/data", "/results"),
     Mount("/data", "/workspace")}

ValidEnvs == {EnvVar("CUDA_VISIBLE_DEVICES", "0"), EnvVar("PYTHONPATH", "/workspace")}

BindingFiles ==
    {[exists |-> TRUE, data |-> <<Item("Mounts", m), Item("Envs", e)>>] :
        m \in SeqsUpTo(ValidMounts, MaxBindings), e \in SeqsUpTo(ValidEnvs, MaxBindings)}

InitBindings == InitWith(Configs(OneUniverse), Environs({None}))

GetBindings == GetMountEnvDataFrom(BindingFiles)

NextBindings ==
    \/ GetLauncher \/ CallTask \/ LaunchLocal \/ CheckImageExists \/ Pull \/ GetBindings
    \/ StartContainer \/ ExecCommand \/ StopAfterFailure \/ StopFinally \/ RunOnCI

SpecBindings == InitBindings /\ [][NextBindings]_vars

\* C14: a Mounts list of n valid entries gives n volume bindings, each
\* from the entry's resolved source path to its resolved destination path
\* with mode rw, and every Envs entry gives one variable=value string, in
\* the order of the file.
C14_OneBindingPerMount ==
    pc = "mounts" =>
        \A file \in BindingFiles :
            LET mounts == DictGet(file.data, "Mounts")
                envs == DictGet(file.data, "Envs")
                r == get_mount_env_data(file)
                volumes == formatted_mounts(r.mount_points)
            IN /\ r.exc = "none"
               /\ Len(volumes) = Len(mounts)
               /\ \A i \in DOMAIN mounts : \E j \in DOMAIN volumes :
                      /\ volumes[j].k = RealPath(mounts[i].source)
                      /\ volumes[j].v = [bind |-> RealPath(mounts[i].destination), mode |-> "rw"]
               /\ formatted_envs(r.env_vars)
                      = [i \in DOMAIN envs |-> envs[i].variable \o "=" \o envs[i].value]

(***************************************************************************)
(* The forwarded command: one config, docker and wheel mode, argument      *)
(* lists of up to MaxCommandArgs tokens.                                   *)
(***************************************************************************)
MaxCommandArgs == 3

CommandArgLists == SeqsUpTo({"run", "-e", "spec.yaml"}, MaxCommandArgs)

InitCommand == InitWith(Configs(OneUniverse), Environs({None, "1"}))

CallCommand == CallTaskWith(CommandArgLists)

NextCommand == GetLauncher \/ CallCommand \/ LaunchLocal \/ LaunchWHL \/ HostExec

SpecCommand == InitCommand /\ [][NextCommand]_vars

\* The words with one space between neighbours.
RECURSIVE SpaceSeparated(_)
SpaceSeparated(words) ==
    IF words = <<>> THEN ""
    ELSE IF Tail(words) = <<>> THEN words[1]
    ELSE words[1] \o (" " \o SpaceSeparated(Tail(words)))

\* C15: for a non-empty argument list, in docker mode and in wheel mode
\* alike, the forwarded command is the arguments after a leading `run`
\* joined by single spaces, or else the task name, a space and all the
\* arguments joined by single spaces; in docker mode an empty argument list
\* gives /bin/bash.
C15_ForwardedCommand ==
    (pc \in {"check_image", "docker_run", "host_exec"} /\ call.via = "direct") =>
        LET args == call.args.list IN
        command = IF args = <<>> THEN "/bin/bash"
                  ELSE IF args[1] = "run" THEN SpaceSeparated(Tail(args))
                  ELSE call.task \o " " \o SpaceSeparated(args)

\* In wheel mode `run -e spec.yaml` is about to run on the host.
C15_Witness ==
    /\ pc = "host_exec" /\ instance.kind = "whl"
    /\ call.args.list = <<"run", "-e", "spec.yaml">>
    /\ command = "-e spec.yaml"

\* C16: in wheel mode a known task of a known group launched with an empty
\* argument list runs a help command on the host and completes without
\* an error.
C16_WheelHelpOnEmptyArgs ==
    (pc = "done" /\ instance.kind = "whl" /\ call.args.is_list /\ call.args.list = <<>>
     /\ TaskMapHas(instance.task_map, call.task_group, call.task)) =>
        /\ exc = "none"
        /\ Steps({"host_exec"}) # {}

(***************************************************************************)
(* Both parsers on the configs of SelectUniverse: the run stops once the   *)
(* instance is built.                                                      *)
(***************************************************************************)
InitParse ==
    InitWith(Configs(SelectUniverse),
             {[TAO_DOCKER_DISABLE |-> d, CI_PROJECT_DIR |-> None, OVERRIDE_REGISTRY |-> o] :
                  d \in {None, "1"}, o \in {None, "registry.local"}})

NextParse == GetLauncher

SpecParse == InitParse /\ [][NextParse]_vars

\* C17: on every config, valid or not, the parsers of LocalInstance and of
\* WHLInstance raise the same error or return the same task map (groups,
\* task names, image, tag, registry and digest of every task) and the same
\* set of image names, and the instance of either mode holds that task map.
C17_ParsersAgree ==
    LET l == parse_launcher_config(config, environ["OVERRIDE_REGISTRY"])
        w == WHL_parse_launcher_config(config, environ["OVERRIDE_REGISTRY"])
    IN /\ l.exc = w.exc
       /\ l.task_map = w.task_map
       /\ l.docker_images = w.docker_images
       /\ pc # "init" => exc = l.exc /\ instance.task_map = l.task_map

\* The wheel parser has built the task map of a 3.0 config of two groups.
C17_Witness ==
    /\ pc = "ready" /\ instance.kind = "whl"
    /\ config.format_version = 3 /\ Len(instance.task_map) = 2
    /\ instance.task_map # <<>> /\ instance.task_map[1].v # <<>>

\* C18: the handler launch_command picks for a task has the registry, the
\* image name and the tag of that task's own Task record, also when the
\* same image:tag is listed with different registries, so the image that
\* is checked, pulled and run is the task's and its registry is the one
\* checked for login.
C18_HandlerOfTheTask ==
    handler # NoHandler =>
        LET task == DictGet(DictGet(instance.task_map, call.task_group), call.task) IN
        /\ handler.docker_registry = task.docker_registry
        /\ handler.image_name = task.docker_image
        /\ handler.docker_tag = task.docker_tag
        /\ docker_image(handler)
               = task.docker_registry \o "/" \o task.docker_image \o ":" \o task.docker_tag

\* The call is the launch of a task of the task map in docker mode, with a
\* list of arguments, and launch_command has acted on it.
DockerTaskLaunched ==
    /\ pc \notin {"init", "ready", "launch"}
    /\ instance.kind = "local"
    /\ TaskMapHas(instance.task_map, call.task_group, call.task)
    /\ call.args.is_list

\* The docker client config that was read does not show a login to the
\* registry of the task: it has no auths section or no entry for it.
NotLoggedIn ==
    LET task == DictGet(DictGet(instance.task_map, call.task_group), call.task)
        docker_config == run.docker_config
    IN /\ docker_config.read /\ docker_config.exists
       /\ \/ ~docker_config.has_auths
          \/ task.docker_registry \notin docker_config.auths

\* C19: in docker mode the login check comes before every engine action.
\* With OVERRIDE_REGISTRY unset and a docker client config that has no auths
\* section or no entry for the registry of the task, launch_command fails
\* with nothing asked of the engine, no handler picked and no container.
\* With OVERRIDE_REGISTRY set the docker client config is not read and the
\* launch goes on to the handler.  No engine step is logged without a
\* handler, which is picked only after the login check.
C19_LoginBeforeEngine ==
    /\ handler = NoHandler =>
           Steps({"check_image", "pull", "start", "exec", "docker_run"}) = {}
    /\ DockerTaskLaunched =>
           /\ (environ["OVERRIDE_REGISTRY"] = None /\ NotLoggedIn) =>
                  /\ pc = "done" /\ exc \in {"ValueError", "AssertionError"}
                  /\ log = <<>> /\ handler = NoHandler /\ container = None
           /\ environ["OVERRIDE_REGISTRY"] # None =>
                  /\ ~run.docker_config.read
                  /\ handler # NoHandler
           /\ (environ["OVERRIDE_REGISTRY"] = None /\ pc = "check_image") =>
                  /\ run.docker_config.read
                  /\ ~NotLoggedIn

\* A launch in docker mode was refused because the docker client config has
\* auths but no entry for the registry of the task.
C19_Witness ==
    /\ DockerTaskLaunched /\ environ["OVERRIDE_REGISTRY"] = None
    /\ NotLoggedIn /\ run.docker_config.has_auths
    /\ pc = "done" /\ exc = "AssertionError" /\ log = <<>>

\* A launch in docker mode with OVERRIDE_REGISTRY set went on to the image
\* check without reading the docker client config.
C19_WitnessOverride ==
    /\ DockerTaskLaunched /\ environ["OVERRIDE_REGISTRY"] # None
    /\ pc = "check_image" /\ ~run.docker_config.read

\* The <<image, tag, registry>> entries under which the config lists task t
\* in group g.
ListedEntries(cfg, g, t) ==
    LET gs == GroupsOf(cfg) IN
    UNION {UNION {{<<gs[i].dockers[j].image, gs[i].dockers[j].tags[k].tag,
                     gs[i].dockers[j].tags[k].docker_registry>> :
                      k \in {k \in DOMAIN gs[i].dockers[j].tags :
                                t \in Range(gs[i].dockers[j].tags[k].tasks)}} :
                  j \in DOMAIN gs[i].dockers} :
           i \in {i \in DOMAIN gs : gs[i].name = g}}

\* The registries the config gives anywhere.
ConfigRegistries(cfg) ==
    UNION {{e[3] : e \in ListedEntries(cfg, g, t)} : g \in GroupNames(cfg), t \in TaskNames}

\* C20: with OVERRIDE_REGISTRY set every Task of the task map has the
\* override as its registry whatever the config gives, and the image
\* reference and the pull repository of the handler a launch picks are the
\* override registry followed by the image (and tag) of the task; with it
\* unset every Task has the image, tag and registry of one config entry
\* that lists it in its group.
C20_OverrideRegistry ==
    LET override == environ["OVERRIDE_REGISTRY"] IN
    (pc # "init" /\ instance # NoInstance) =>
        /\ \A g \in DictKeys(instance.task_map) :
             \A t \in DictKeys(DictGet(instance.task_map, g)) :
                LET task == DictGet(DictGet(instance.task_map, g), t) IN
                /\ override # None => task.docker_registry = override
                /\ override = None =>
                       <<task.docker_image, task.docker_tag, task.docker_registry>>
                           \in ListedEntries(config, g, t)
        /\ (handler # NoHandler /\ override # None) =>
             LET task == DictGet(DictGet(instance.task_map, call.task_group), call.task) IN
             /\ handler.docker_registry = override
             /\ docker_image(handler)
                    = override \o "/" \o task.docker_image \o ":" \o task.docker_tag
             /\ pull_repository(handler) = override \o "/" \o task.docker_image

\* With OVERRIDE_REGISTRY set, a task was launched from a config that gives
\* two other registries.
C20_Witness ==
    /\ environ["OVERRIDE_REGISTRY"] # None
    /\ pc = "check_image" /\ handler # NoHandler
    /\ Cardinality(ConfigRegistries(config)) = 2
    /\ environ["OVERRIDE_REGISTRY"] \notin ConfigRegistries(config)

\* With OVERRIDE_REGISTRY unset, the task map was built from a config that
\* lists tasks under two registries.
C20_WitnessUnset ==
    /\ environ["OVERRIDE_REGISTRY"] = None
    /\ pc = "ready" /\ instance # NoInstance
    /\ Cardinality(ConfigRegistries(config)) = 2

\* Mounts files whose DockerOptions set tty, alone or next to privileged:
\* JSON true, false, 1, 0, "" and null.
TtyValues == {"True", "False", "1", "0", "", None}

TtyFiles ==
    {NoMountsFile, [exists |-> TRUE, data |-> <<Item("Mounts", <<>>)>>]}
    \cup {[exists |-> TRUE,
           data |-> <<Item("Mounts", <<>>), Item("DockerOptions", <<Item("tty", v)>>)>>] :
            v \in TtyValues}
    \cup {[exists |-> TRUE,
           data |-> <<Item("Mounts", <<>>),
                     Item("DockerOptions", <<Item("privileged", "True"), Item("tty", v)>>)>>] :
            v \in TtyValues}

GetTtyOptions == GetMountEnvDataFrom(TtyFiles)

\* The most local images of the engine.
MaxImages == 2

\* The local images the engine may list for a handler: each has no
\* RepoTags, the reference of the handler, the same repository with another
\* tag, the same image and tag of another registry, or two of these.
RepoTagSets(h) ==
    {{}, {docker_image(h)}, {pull_repository(h) \o ":latest"},
     {"docker.io/" \o h.image_name \o ":" \o h.docker_tag},
     {docker_image(h), pull_repository(h) \o ":latest"}}

ImageLists(h) == SeqsUpTo({Image(tags) : tags \in RepoTagSets(h)}, MaxImages)

InitImages == InitWith(Configs(OneUniverse), Environs({None}))

CheckLocalImages == CheckImageExistsIn(ImageLists(handler))

NextImages ==
    \/ GetLauncher \/ CallTask \/ LaunchLocal \/ CheckLocalImages \/ Pull
    \/ GetTtyOptions \/ StartContainer \/ ExecCommand \/ StopAfterFailure
    \/ StopFinally \/ RunOnCI

SpecImages == InitImages /\ [][NextImages]_vars

\* <registry>/<image>:<tag> of the handler of the run.
Reference ==
    handler.docker_registry \o "/" \o handler.image_name \o ":" \o handler.docker_tag

\* The reference is among the RepoTags of a local image.
AmongRepoTags(image_list) ==
    \E i \in DOMAIN image_list : Reference \in image_list[i].RepoTags

\* C21: a pull is requested if and only if the reference
\* <registry>/<image>:<tag> is not among the RepoTags of a local image; it
\* is requested at most once in an invocation, right after the one image
\* check, for exactly that repository and tag; when the image is present
\* no pull is requested.
C21_PullWhenAbsent ==
    /\ Cardinality(Steps({"check_image"})) <= 1
    /\ Cardinality(Steps({"pull"})) <= 1
    /\ \A i \in Steps({"pull"}) :
          /\ i = 2 /\ log[1].op = "check_image" /\ ~log[1].flag
          /\ log[i].arg = Reference
    /\ pc \in {"pull", "mounts"} =>
          /\ log[1].op = "check_image" /\ log[1].arg = Reference
          /\ log[1].flag = AmongRepoTags(run.image_list)
    /\ pc = "mounts" => ((Steps({"pull"}) # {}) <=> ~AmongRepoTags(run.image_list))
    /\ (Steps({"check_image"}) # {} /\ pc # "pull") =>
          ((Steps({"pull"}) # {}) <=> ~log[1].flag)

\* The engine lists two tagged images, neither with the reference of the
\* handler, and the image has been pulled.
C21_Witness ==
    /\ pc = "mounts" /\ Steps({"pull"}) # {}
    /\ Len(run.image_list) = 2
    /\ \A i \in DOMAIN run.image_list : run.image_list[i].RepoTags # {}

\* The mounts step of the run found no mounts file.
NoMountsFileFound == \E i \in Steps({"mounts"}) : ~log[i].flag

\* C22: a missing mounts file is not an error: _get_mount_env_data returns
\* no mounts, no env variables and no docker options, the container is
\* started with empty volumes and environment, no extra keyword and tty
\* true, and the command is exec'd with -it.  A mounts file that exists
\* must have the Mounts key; an otherwise valid one is accepted without
\* Envs and without DockerOptions, which then are empty.
C22_MissingMountsFile ==
    /\ \A i \in Steps({"mounts"}) : ~log[i].flag => log[i].arg = "none"
    /\ (NoMountsFileFound /\ pc \in {"start_container", "docker_run"}) =>
          /\ exc = "none"
          /\ run.volumes = <<>> /\ run.env_variables = <<>> /\ run.docker_options = <<>>
          /\ run.tty = "True"
          /\ start_container_args(run.docker_options)
                 = [exc |-> "none", tty |-> "True", docker_args |-> <<>>]
    /\ NoMountsFileFound =>
          /\ \A i \in Steps({"exec"}) :
                log[i].arg = "bash -c 'docker exec -it " \o container \o " " \o command \o "'"
          /\ \A i \in Steps({"docker_run"}) :
                log[i].arg = ci_command(handler, <<>>, <<>>, <<>>, command)
    /\ pc = "mounts" =>
          \A file \in MountsFiles :
              LET r == get_mount_env_data(file) IN
              /\ ~file.exists =>
                    r = [exc |-> "none", mount_points |-> <<>>, env_vars |-> <<>>,
                         docker_options |-> <<>>]
              /\ (file.exists /\ "Mounts" \notin DictKeys(file.data)) =>
                    r.exc = "AssertionError"
              /\ (file.exists /\ ~InvalidMountsFile(file)) =>
                    /\ r.exc = "none"
                    /\ "Envs" \notin DictKeys(file.data) => r.env_vars = <<>>
                    /\ "DockerOptions" \notin DictKeys(file.data) => r.docker_options = <<>>

\* Without a mounts file a container was started and the command exec'd.
C22_Witness ==
    /\ NoMountsFileFound /\ Steps({"exec"}) # {} /\ container # None /\ pc = "finally"

NextTty ==
    \/ GetLauncher \/ CallTask \/ LaunchLocal \/ CheckImageExists \/ Pull
    \/ GetTtyOptions \/ StartContainer \/ ExecCommand \/ StopAfterFailure
    \/ StopFinally \/ RunOnCI

SpecTty == InitBindings /\ [][NextTty]_vars

\* C23: within one invocation the command is exec'd with -it exactly when
\* the container was started with a true tty and with -i exactly when it
\* was started with a false one; the tty of the start is true unless
\* DockerOptions sets tty to a false value; and tty is never among the
\* extra keywords of the container start.
C23_TtyConsistent ==
    /\ pc = "start_container" =>
          LET a == start_container_args(run.docker_options) IN
          /\ "tty" \notin DictKeys(a.docker_args)
          /\ Truthy(a.tty) <=> ~(/\ "tty" \in DictKeys(run.docker_options)
                                  /\ ~Truthy(DictGet(run.docker_options, "tty")))
          /\ "tty" \notin DictKeys(run.docker_options) => a.tty = "True"
          /\ a.tty = run.tty
    /\ \A i \in Steps({"exec"}) :
          /\ Truthy(run.started_tty) <=>
                log[i].arg = "bash -c 'docker exec -it " \o container \o " " \o command \o "'"
          /\ ~Truthy(run.started_tty) <=>
                log[i].arg = "bash -c 'docker exec -i " \o container \o " " \o command \o "'"

\* A container was started with tty 0 next to another option and the
\* command was exec'd.
C23_Witness ==
    /\ Steps({"exec"}) # {} /\ run.started_tty = "0" /\ pc = "finally"

\* Configs whose tags are a prefix of one another, as 5.0.0-tf2 and
\* 5.0.0-tf2.11.0 are.
KillUniverse ==
    [groups |-> {"g1"}, images |-> {"img1"}, tags |-> {"v1", "v1.0"},
     registries |-> {"nvcr.io"}, digests |-> {None},
     tasklists |-> {<<"train">>, <<"export">>}, malformed |-> FALSE]

\* The containers of the engine: one of img1:v1, one of img1:v1.0 and one
\* of an image the config does not know.
KillEngine ==
    {Container("c1", "nvcr.io", "img1", "v1", "", <<>>),
     Container("c2", "nvcr.io", "img1", "v1", ".0", <<>>),
     Container("c3", "docker.io", "ubuntu", "22.04", "", <<>>)}

KillArgvs ==
    {<<"stop">>, <<"stop", "--all">>, <<"stop", "--container_id", "c1">>,
     <<"stop", "--container_id", "c1", "c3">>, <<"stop", "--container_id", "c1", "c1">>,
     <<"stop", "--container_id", "c3", "--all">>}

InitKill == InitWith(Configs(KillUniverse), Environs({None}))

StopMain == MainWith(KillArgvs)

KillRunning == KillContainersFrom(KillEngine)

NextKill == GetLauncher \/ StopMain \/ LaunchLocal \/ KillRunning

SpecKill == InitKill /\ [][NextKill]_vars

\* The <image>:<tag> references of the config.
ConfigKeys ==
    UNION {{p[1] \o ":" \o p[2] : p \in ListedPairs(config, g, t)} :
               g \in GroupNames(config), t \in TaskNames}

\* The ids of the containers kill_containers has stopped, in order.
Stopped == [i \in 1..(Len(log) - 1) |-> log[i + 1].arg]

\* The containers the stop request is for.
IntendedStops ==
    IF call.args.ns.all
    THEN {c.id : c \in {c \in Range(run.running) : \E key \in ConfigKeys : KeyInImage(key, c)}}
    ELSE IF call.args.ns.container_id.is_list THEN Range(call.args.ns.container_id.ids)
    ELSE {}

\* C24: a stop that returns has stopped exactly the intended containers,
\* each exactly once: with --all the running containers whose image
\* contains an image:tag of the config, whatever --container_id says;
\* without --all the containers of the given ids; with neither none.
C24_StopsExactlyIntended ==
    (/\ pc = "done" /\ exc = "none" /\ instance.kind = "local"
     /\ call.task_group = "stop" /\ ~call.args.is_list
     /\ log # <<>> /\ log[1].op = "kill_containers") =>
        /\ Range(Stopped) = IntendedStops
        /\ Len(Stopped) = Cardinality(IntendedStops)

\* Configs of up to two groups with different tasks on one image.
ListUniverse ==
    [groups |-> {"g1", "g2"}, images |-> {"img1"}, tags |-> {"v1"},
     registries |-> {"nvcr.io"}, digests |-> {None},
     tasklists |-> {<<"train">>, <<"export">>}, malformed |-> FALSE]

\* The containers of the engine: two of the configured image, running
\* train and (after a shell) export, and one of another image.
ListEngine ==
    {Container("c1", "nvcr.io", "img1", "v1", "",
               <<<<"python", "/usr/local/bin/train", "-e", "spec.yaml">>>>),
     Container("c2", "nvcr.io", "img1", "v1", "",
               <<<<"bash">>, <<"python", "/opt/export">>>>),
     Container("c3", "docker.io", "ubuntu", "22.04", "", <<<<"python", "train">>>>)}

InitList == InitWith(Configs(ListUniverse), Environs({None}))

ListMain == MainWith({<<"list">>})

ListJobs == ListRunningJobsFrom(ListEngine)

NextList == GetLauncher \/ ListMain \/ LaunchLocal \/ ListJobs

SpecList == InitList /\ [][NextList]_vars

\* The tasks of all groups of the task map.
AllTaskNames ==
    UNION {DictKeys(instance.task_map[i].v) : i \in DOMAIN instance.task_map}

\* The commands of the processes of container c whose entrypoint is a task
\* of some group, as the table shows a command: task and arguments.
TaskCommands(c) ==
    {Basename(c.processes[j][2]) \o " "
         \o Join(SubSeq(c.processes[j], 3, Len(c.processes[j]))) :
       j \in {j \in DOMAIN c.processes :
                /\ Len(c.processes[j]) >= 2
                /\ Basename(c.processes[j][2]) \in AllTaskNames}}

\* C25: list_running_jobs has one row for every running container of a
\* configured image, and the row of a container with a process whose
\* entrypoint is a task of any group of the task map shows that task and
\* its arguments, not the placeholder.
C25_ListShowsTask ==
    (/\ pc = "done" /\ exc = "none" /\ instance.kind = "local"
     /\ call.task_group = "list" /\ log # <<>>) =>
        /\ {run.table[i].container_id : i \in DOMAIN run.table}
              = {c.id : c \in {c \in Range(run.running) :
                                 \E key \in ConfigKeys : KeyInImage(key, c)}}
        /\ \A i \in DOMAIN run.table :
              \A c \in Range(run.running) :
                 (c.id = run.table[i].container_id /\ TaskCommands(c) # {}) =>
                     run.table[i].command \in TaskCommands(c)

\* Configs whose tasks have no digest or one of two digests.
DigestUniverse ==
    [groups |-> {"g1"}, images |-> {"img1"}, tags |-> {"v1"}, registries |-> {"nvcr.io"},
     digests |-> {None, "sha256:aa", "sha256:bb"},
     tasklists |-> {<<"train">>, <<"train", "export">>}, malformed |-> FALSE]

InitTask == InitWith(Configs(DigestUniverse), Environs({None, "1"}))

\* A caller takes a Task of the task map and builds a Task from its
\* configuration: Task.from_config(t.get_config()).
TaskRoundTrip ==
    /\ pc = "ready"
    /\ \E g \in DictKeys(instance.task_map) :
         \E t \in DictKeys(DictGet(instance.task_map, g)) :
            LET r == from_config(get_config(DictGet(DictGet(instance.task_map, g), t)),
                                 environ["OVERRIDE_REGISTRY"])
            IN /\ call' = [NoCall EXCEPT !.via = "from_config", !.task_group = g, !.task = t]
               /\ run' = [run EXCEPT !.task = r.task]
               /\ Raise(r.exc, 0)
    /\ UNCHANGED <<Inputs, Built, handler, command, container, log>>

NextTask == GetLauncher \/ TaskRoundTrip

SpecTask == InitTask /\ [][NextTask]_vars

\* C26: Task.from_config(t.get_config()) succeeds for every Task t, with
\* or without a docker_digest, and returns a Task with the name, image,
\* tag, registry and digest of t.
C26_TaskRoundTrips ==
    call.via = "from_config" =>
        /\ exc = "none"
        /\ run.task = DictGet(DictGet(instance.task_map, call.task_group), call.task)

\* The call names a group of the task map and a task that group does not
\* have.
UnknownTaskOfKnownGroup ==
    /\ instance # NoInstance
    /\ call.task_group \in DictKeys(instance.task_map)
    /\ call.task \notin DictKeys(DictGet(instance.task_map, call.task_group))

\* C27: in docker mode and in wheel mode a launch_command call for a task
\* that is not in the map of its (known) group ends with an exception,
\* and nothing was asked of the engine or the host: no container, no
\* command.
C27_UnknownTaskRejected ==
    (pc = "done" /\ UnknownTaskOfKnownGroup) =>
        /\ exc # "none"
        /\ log = <<>> /\ container = None /\ handler = NoHandler /\ command = ""

InitDigest == InitWith(Configs(DigestUniverse), Environs({None}))

NextDigest ==
    \/ GetLauncher \/ CallTask \/ LaunchLocal \/ CheckImageExists \/ Pull
    \/ GetMountEnvData \/ StartContainer \/ ExecCommand \/ StopAfterFailure
    \/ StopFinally \/ RunOnCI

SpecDigest == InitDigest /\ [][NextDigest]_vars

\* The dockers of a config without their digests.
NoDigests(dockers) ==
    [j \in DOMAIN dockers |->
        [dockers[j] EXCEPT !.tags = [k \in DOMAIN dockers[j].tags |->
            [dockers[j].tags[k] EXCEPT !.docker_digest = None]]]]

\* The config that differs from cfg only in that no entry has a digest.
EraseDigests(cfg) ==
    [cfg EXCEPT !.dockers = NoDigests(cfg.dockers),
                !.task_group = [i \in DOMAIN cfg.task_group |->
                    [cfg.task_group[i] EXCEPT !.dockers = NoDigests(cfg.task_group[i].dockers)]]]

\* The handler the same call gets from the config without digests.
HandlerWithoutDigests ==
    LET parsed == parse_launcher_config(EraseDigests(config), environ["OVERRIDE_REGISTRY"])
        task == DictGet(DictGet(parsed.task_map, call.task_group), call.task)
    IN  DictGet(handler_map(parsed.task_map).map, HandlerKey(task))

\* C29: the digests of a config have no effect on execution: every run
\* asks the engine for what the same command line and environment ask
\* with the config whose digests are erased, so two configs that differ
\* only in digests give the same image check, pull, container start,
\* docker run and exec'd command.
C29_DigestHasNoEffect ==
    handler # NoHandler =>
        LET h == HandlerWithoutDigests IN
        /\ TaskMapHas(parse_launcher_config(EraseDigests(config),
                                            environ["OVERRIDE_REGISTRY"]).task_map,
                      call.task_group, call.task)
        /\ command = local_command(call.task, call.args.list)
        /\ \A i \in Steps({"check_image", "start"}) : log[i].arg = docker_image(h)
        /\ \A i \in Steps({"pull"}) : log[i].arg = pull_repository(h) \o ":" \o h.docker_tag
        /\ \A i \in Steps({"exec"}) : log[i].arg = exec_command(run.tty, container, command)
        /\ pc = "docker_run" =>
              ci_command(handler, run.volumes, run.env_variables, run.docker_options, command)
                  = ci_command(h, run.volumes, run.env_variables, run.docker_options, command)

\* A task whose image has a digest was pulled, started and run.
C29_Witness ==
    /\ handler # NoHandler /\ handler.docker_digest # None
    /\ Steps({"pull"}) # {} /\ Steps({"start"}) # {} /\ Steps({"exec"}) # {}

\* The listings of group g in config order: one <<task, image, tag>> for
\* every task of every tag of every image.
Listing(cfg, g) ==
    LET gs == GroupsOf(cfg) IN
    Flatten([i \in DOMAIN gs |->
        IF gs[i].name # g THEN <<>>
        ELSE Flatten([j \in DOMAIN gs[i].dockers |->
                 Flatten([k \in DOMAIN gs[i].dockers[j].tags |->
                     [l \in DOMAIN gs[i].dockers[j].tags[k].tasks |->
                         <<gs[i].dockers[j].tags[k].tasks[l], gs[i].dockers[j].image,
                           gs[i].dockers[j].tags[k].tag>>]])])])

\* The last listing of task t in group g.
LastListed(cfg, g, t) ==
    LET all == Listing(cfg, g)
        last == CHOOSE n \in DOMAIN all :
                    /\ all[n][1] = t
                    /\ \A m \in DOMAIN all : all[m][1] = t => m <= n
    IN  all[last]

\* C30: in the task map of a valid config every group has one entry for
\* each task name the config lists in it and no other entry, also when a
\* task is listed under several images or tags, and the entry is the Task
\* of the image and tag that list the task last in config order.
C30_OneTaskPerName ==
    (pc # "init" /\ instance # NoInstance) =>
        \A g \in GroupNames(config) :
            /\ g \in DictKeys(instance.task_map)
            /\ LET group_map == DictGet(instance.task_map, g) IN
               /\ \A i, j \in DOMAIN group_map : group_map[i].k = group_map[j].k => i = j
               /\ DictKeys(group_map) = ListedTasks(config, g)
               /\ Len(group_map) = Cardinality(ListedTasks(config, g))
               /\ \A t \in DictKeys(group_map) :
                     LET task == DictGet(group_map, t) IN
                     /\ task.name = t
                     /\ <<t, task.docker_image, task.docker_tag>> = LastListed(config, g, t)

\* The task map was built from a config that lists a task of one group
\* under two images.
C30_Witness ==
    /\ pc = "ready" /\ instance # NoInstance
    /\ \E g \in GroupNames(config), t \in TaskNames :
          /\ Cardinality(ListedPairs(config, g, t)) = 2
          /\ Cardinality({p[1] : p \in ListedPairs(config, g, t)}) = 2

=============================================================================
